---- MODULE Spec2Model ----
(***************************************************************************)
(* memo-cli retrieval core: query decomposition (decompose.rs), the        *)
(* request pipeline (multi.rs), the per-leaf ranking (engine.rs) and the   *)
(* cross-leaf merge (merge.rs).                                            *)
(***************************************************************************)
EXTENDS Integers, Sequences, FiniteSets, TLC

\* ---------------------------------------------------------------- bounds
MaxLevel == 2
MaxChildren == 2
MaxTotalLeaves == 3
MaxTextLen == 4
MaxMem == 2
MaxPerLeaf == 2
MaxSubResults == 2
MaxLimit == 2

VARIABLES
    cfg,            \* DecompositionConfig + MultiQueryConfig + limit of the request
    pc,             \* position of the request in multi::search
    nodes,          \* DecompositionTree.nodes: nodes[k+1] is node_k
    id_counter,     \* DecompositionTree.id_counter
    queue,          \* current_level_queue
    next_queue,     \* next_level_queue
    qi,             \* position of the post-join loop in current_level_queue
    current_level,  \* current_level
    failed,         \* parents (0 = the original query) whose decompose_query returned Err
    leaves,         \* tree.get_leaves(), in the order the node map yields them
    li,             \* next leaf task to complete
    sub_results,    \* the flattened results of the leaf tasks
    leaf_log,       \* what each completed leaf task met (encode, storage, rerank)
    calls,          \* provider and storage calls issued so far
    guaranteed,     \* merge_results: the ids stage C guarantees
    merged,         \* merge_results(sub_results, mq_config)
    final_memories, \* the result list
    chat_summary,   \* what client.chat answered to the summarize prompt
    summary,        \* Option<String>
    returned,       \* "pending", then "ok" or "err": the Result of multi::search
    input,          \* <<arguments>> of a function called on its own, else <<>>
    output,         \* <<its return value>> once it returned
    locals          \* <<local variables>> of a function run step by step, else <<>>

treeVars == <<nodes, id_counter, queue, next_queue, qi, current_level, failed>>
searchVars == <<leaves, li, sub_results, leaf_log, calls>>
resultVars == <<guaranteed, merged, final_memories, chat_summary, summary, returned>>
callVars == <<input, output, locals>>
vars == <<cfg, pc, treeVars, searchVars, resultVars, callVars>>

\* ------------------------------------------------------- chat response text
\* A chat response is a sequence of tokens: the two delimiters, a well-formed
\* <subquery> element that passes validation with needs_refinement true / false,
\* and a well-formed <subquery> element that validation rejects.
Tokens == {"open", "close", "sqT", "sqF", "sqBad"}

RECURSIVE SeqsUpTo(_, _)
SeqsUpTo(S, n) ==
    IF n = 0 THEN {<<>>}
    ELSE LET shorter == SeqsUpTo(S, n - 1)
         IN shorter \cup {Append(s, x) : s \in {t \in shorter : Len(t) = n - 1}, x \in S}

ChatTexts == SeqsUpTo(Tokens, MaxTextLen)

\* str::find: position of the first occurrence, 0 when absent
Find(text, tok) ==
    IF \E i \in 1..Len(text) : text[i] = tok
    THEN CHOOSE i \in 1..Len(text) : text[i] = tok /\ \A j \in 1..(i - 1) : text[j] # tok
    ELSE 0

\* extract_decomposition_xml: output[start..end] with end just past the first
\* closing delimiter; a start beyond end makes the slice panic.
extract_decomposition_xml(text) ==
    LET start == Find(text, "open")
        close == Find(text, "close")
    IN IF start = 0 \/ close = 0 THEN [kind |-> "err"]
       ELSE IF start > close + 1 THEN [kind |-> "panic"]
       ELSE [kind |-> "ok", xml |-> SubSeq(text, start, close)]

\* is_valid_dimension && is_valid_query of one parsed element
is_valid_subquery(tok) == tok \in {"sqT", "sqF"}

RECURSIVE FilterValid(_)
FilterValid(s) ==
    IF s = <<>> THEN <<>>
    ELSE IF is_valid_subquery(Head(s))
         THEN <<Head(s) = "sqT">> \o FilterValid(Tail(s))
         ELSE FilterValid(Tail(s))

\* parse_decomposition_xml: the slice must be one <decomposition> element holding
\* <subquery> elements; the valid ones are kept, none left is an error.
parse_decomposition_xml(xml) ==
    LET wellFormed ==
            /\ Len(xml) >= 2
            /\ xml[1] = "open"
            /\ xml[Len(xml)] = "close"
            /\ \A i \in 2..(Len(xml) - 1) : xml[i] \in {"sqT", "sqF", "sqBad"}
        subqueries == IF wellFormed THEN FilterValid(SubSeq(xml, 2, Len(xml) - 1)) ELSE <<>>
    IN IF ~wellFormed \/ subqueries = <<>> THEN [kind |-> "err"]
       ELSE [kind |-> "ok", subs |-> subqueries]

\* decompose_query on the outcome of client.chat: Err, or Ok(text)
decompose_query(reply) ==
    IF ~reply.ok THEN [kind |-> "err"]
    ELSE LET x == extract_decomposition_xml(reply.text)
         IN IF x.kind # "ok" THEN x ELSE parse_decomposition_xml(x.xml)

ChatReplies == {[ok |-> TRUE, text |-> t] : t \in ChatTexts} \cup {[ok |-> FALSE, text |-> <<>>]}

\* ------------------------------------------------------------ query results
\* Option<f32> is <<>> (None) or <<v>> (Some(v)); scores are in hundredths.
ScoreVals == {<<>>, <<50>>, <<90>>}

unwrap_or(opt, default) == IF opt = <<>> THEN default ELSE opt[1]

Min(a, b) == IF a < b THEN a ELSE b

\* Iterator::take / Vec::truncate
Take(s, n) == SubSeq(s, 1, Min(Len(s), n))

Range(s) == {s[i] : i \in 1..Len(s)}

Perms(S) == {s \in [1..Cardinality(S) -> S] : \A i, j \in 1..Cardinality(S) : s[i] = s[j] => i = j}

\* ------------------------------------------------------------ merge.rs
\* stage A adding the scores up instead of keeping the highest
CollapseEntrySumming(id_map, source_label, memory) ==
    LET score == unwrap_or(memory.score, 0)
        entry == IF memory.id \in DOMAIN id_map
                 THEN id_map[memory.id]
                 ELSE [memory |-> memory, sources |-> <<>>, max_score |-> 0]
        raised == [entry EXCEPT !.max_score = @ + score]
        sourced == IF source_label \in Range(raised.sources)
                   THEN raised
                   ELSE [raised EXCEPT !.sources = Append(@, source_label)]
    IN (memory.id :> sourced) @@ id_map

\* body of `for memory in &sub_result.results` (stage A) on the id map
CollapseEntry(id_map, source_label, memory) ==
    LET score == unwrap_or(memory.score, 0)
        entry == IF memory.id \in DOMAIN id_map
                 THEN id_map[memory.id]
                 ELSE [memory |-> memory, sources |-> <<>>, max_score |-> score]
        raised == IF score > entry.max_score
                  THEN [entry EXCEPT !.max_score = score,
                                     !.memory.score = <<score>>,
                                     !.memory.score_type = memory.score_type]
                  ELSE entry
        sourced == IF source_label \in Range(raised.sources)
                   THEN raised
                   ELSE [raised EXCEPT !.sources = Append(@, source_label)]
    IN (memory.id :> sourced) @@ id_map

RECURSIVE CollapseLeaf(_, _, _)
CollapseLeaf(id_map, source_label, results) ==
    IF results = <<>> THEN id_map
    ELSE CollapseLeaf(CollapseEntry(id_map, source_label, Head(results)),
                      source_label, Tail(results))

\* stage A: the id-keyed collapse of all sub-results
RECURSIVE StageA(_, _)
StageA(id_map, subs) ==
    IF subs = <<>> THEN id_map
    ELSE StageA(CollapseLeaf(id_map, Head(subs).node_id, Head(subs).results), Tail(subs))

\* stage B: id_map.into_values() comes in any order and the sort is stable, so
\* the sorted list is any arrangement that is descending in max_score.
SortedMerged(id_map) ==
    {[i \in 1..Len(order) |-> id_map[order[i]]] : order \in
        {o \in Perms(DOMAIN id_map) :
            \A i, j \in 1..Len(o) : i < j => id_map[o[i]].max_score >= id_map[o[j]].max_score}}

\* the inner loop without its count: every id of the leaf is guaranteed
RECURSIVE GuaranteeLeafUncounted(_, _, _, _, _)
GuaranteeLeafUncounted(guaranteed_ids, sorted_merged, source_label, count, min_per_leaf) ==
    IF sorted_merged = <<>> THEN guaranteed_ids
    ELSE LET m == Head(sorted_merged)
         IN IF source_label \in Range(m.sources) /\ m.memory.id \notin guaranteed_ids
            THEN GuaranteeLeafUncounted(guaranteed_ids \cup {m.memory.id}, Tail(sorted_merged),
                                        source_label, count + 1, min_per_leaf)
            ELSE GuaranteeLeafUncounted(guaranteed_ids, Tail(sorted_merged),
                                        source_label, count, min_per_leaf)

\* inner loop of collect_guaranteed_results for one leaf
RECURSIVE GuaranteeLeaf(_, _, _, _, _)
GuaranteeLeaf(guaranteed_ids, sorted_merged, source_label, count, min_per_leaf) ==
    IF sorted_merged = <<>> \/ count >= min_per_leaf THEN guaranteed_ids
    ELSE LET m == Head(sorted_merged)
         IN IF source_label \in Range(m.sources) /\ m.memory.id \notin guaranteed_ids
            THEN GuaranteeLeaf(guaranteed_ids \cup {m.memory.id}, Tail(sorted_merged),
                               source_label, count + 1, min_per_leaf)
            ELSE GuaranteeLeaf(guaranteed_ids, Tail(sorted_merged),
                               source_label, count, min_per_leaf)

RECURSIVE GuaranteeAll(_, _, _, _)
GuaranteeAll(guaranteed_ids, sorted_merged, subs, min_per_leaf) ==
    IF subs = <<>> THEN guaranteed_ids
    ELSE GuaranteeAll(GuaranteeLeaf(guaranteed_ids, sorted_merged, Head(subs).node_id,
                                    0, min_per_leaf),
                      sorted_merged, Tail(subs), min_per_leaf)

\* stage C left out: nothing is guaranteed
collect_nothing(sorted_merged, subs, min_per_leaf) == {}

\* stage C
collect_guaranteed_results(sorted_merged, subs, min_per_leaf) ==
    GuaranteeAll({}, sorted_merged, subs, min_per_leaf)

\* first loop of build_final_results: the guaranteed items, returning as soon as
\* the list holds max_total items (the test follows the push)
RECURSIVE PushGuaranteed(_, _, _, _)
PushGuaranteed(results, items, guaranteed_ids, max_total) ==
    IF items = <<>> THEN [results |-> results, returned |-> FALSE]
    ELSE LET item == Head(items)
             seen == {results[i].memory.id : i \in 1..Len(results)}
         IN IF item.memory.id \in guaranteed_ids /\ item.memory.id \notin seen
            THEN IF Len(results) + 1 >= max_total
                 THEN [results |-> Append(results, item), returned |-> TRUE]
                 ELSE PushGuaranteed(Append(results, item), Tail(items),
                                     guaranteed_ids, max_total)
            ELSE PushGuaranteed(results, Tail(items), guaranteed_ids, max_total)

\* second loop of build_final_results: fill the remaining slots by score
\* the fill loop without its seen_ids test
RECURSIVE FillRemainingUnchecked(_, _, _)
FillRemainingUnchecked(results, items, max_total) ==
    IF items = <<>> \/ Len(results) >= max_total THEN results
    ELSE FillRemainingUnchecked(Append(results, Head(items)), Tail(items), max_total)

RECURSIVE FillRemaining(_, _, _)
FillRemaining(results, items, max_total) ==
    IF items = <<>> \/ Len(results) >= max_total THEN results
    ELSE LET item == Head(items)
             seen == {results[i].memory.id : i \in 1..Len(results)}
         IN IF item.memory.id \notin seen
            THEN FillRemaining(Append(results, item), Tail(items), max_total)
            ELSE FillRemaining(results, Tail(items), max_total)

\* stage D
build_final_results(sorted_merged, guaranteed_ids, max_total) ==
    LET first == PushGuaranteed(<<>>, sorted_merged, guaranteed_ids, max_total)
    IN IF first.returned THEN first.results
       ELSE FillRemaining(first.results, sorted_merged, max_total)

\* merge_results, for one iteration order of the id map
merge_results(subs, c) ==
    {LET guaranteed_ids == collect_guaranteed_results(sorted_merged, subs, c.min_per_leaf)
     IN [guaranteed |-> guaranteed_ids,
         final |-> build_final_results(sorted_merged, guaranteed_ids, c.max_total_results)] :
        sorted_merged \in SortedMerged(StageA(<<>>, subs))}

\* multi::search after the merge: limit.min(max_total_results), take, memory.clone()
result_limit(c) == Min(c.limit, c.max_total_results)

FinalMemories(merged_list, c) ==
    LET kept == Take(merged_list, result_limit(c))
    IN [i \in 1..Len(kept) |-> kept[i].memory]

\* ------------------------------------------------------------ engine.rs
SmallSetMax == 15
MidSetMax == 25
SmallSetAvg == 80
MidSetAvg == 85

RECURSIVE SumSeq(_)
SumSeq(s) == IF s = <<>> THEN 0 ELSE Head(s) + SumSeq(Tail(s))

RECURSIVE PresentScores(_)
PresentScores(cands) ==
    IF cands = <<>> THEN <<>>
    ELSE Head(cands).score \o PresentScores(Tail(cands))

\* the two thresholds taken as inclusive
should_use_rerank_inclusive(candidates, limit) ==
    IF Len(candidates) <= limit THEN FALSE
    ELSE LET scores == PresentScores(candidates)
             n == Len(scores)
             reached(t) == IF n = 0 THEN 0 >= t ELSE SumSeq(scores) >= t * n
         IN CASE Len(candidates) \in 1..SmallSetMax /\ reached(SmallSetAvg) -> FALSE
              [] Len(candidates) \in (SmallSetMax + 1)..MidSetMax /\ reached(MidSetAvg) -> FALSE
              [] OTHER -> TRUE

\* should_use_rerank: avg_score > t is sum > t * n on hundredths
should_use_rerank(candidates, limit) ==
    IF Len(candidates) <= limit THEN FALSE
    ELSE LET scores == PresentScores(candidates)
             n == Len(scores)
             above(t) == IF n = 0 THEN 0 > t ELSE SumSeq(scores) > t * n
         IN CASE Len(candidates) \in 1..SmallSetMax /\ above(SmallSetAvg) -> FALSE
              [] Len(candidates) \in (SmallSetMax + 1)..MidSetMax /\ above(MidSetAvg) -> FALSE
              [] OTHER -> TRUE

\* stable insertion of x into a list that is descending in score
RECURSIVE InsertDesc(_, _)
InsertDesc(sorted, x) ==
    IF sorted = <<>> THEN <<x>>
    ELSE IF unwrap_or(Head(sorted).score, 0) >= unwrap_or(x.score, 0)
         THEN <<Head(sorted)>> \o InsertDesc(Tail(sorted), x)
         ELSE <<x>> \o sorted

\* the sort left out
KeepOrder(s) == s

\* sort_by(b.score.unwrap_or(0).partial_cmp(a.score.unwrap_or(0))): stable, descending
RECURSIVE SortByScoreDesc(_)
SortByScoreDesc(s) ==
    IF s = <<>> THEN <<>>
    ELSE InsertDesc(SortByScoreDesc(SubSeq(s, 1, Len(s) - 1)), s[Len(s)])

\* filter_map over the provider's items: all_candidates.get(item.index)
RECURSIVE MapReranked(_, _)
MapReranked(items, candidates) ==
    IF items = <<>> THEN <<>>
    ELSE LET item == Head(items)
             rest == MapReranked(Tail(items), candidates)
         IN IF item.index + 1 \in 1..Len(candidates)
            THEN <<[candidates[item.index + 1] EXCEPT !.score = <<item.score>>,
                                                      !.score_type = "Rerank"]>> \o rest
            ELSE rest

\* what the provider call does when apply_rerank reaches it
RerankFails(rerank) == ~rerank.ok

\* apply_rerank: rerank is the provider's answer should the call be made
apply_rerank(all_candidates, limit, rerank) ==
    IF ~should_use_rerank(all_candidates, limit)
    THEN [ok |-> TRUE, results |-> Take(SortByScoreDesc(all_candidates), limit)]
    ELSE IF RerankFails(rerank)
         THEN [ok |-> FALSE, results |-> <<>>]
         ELSE [ok |-> TRUE, results |-> MapReranked(rerank.items, all_candidates)]

\* multi_layer_search as seen by its caller: expansion is what the layers of
\* storage searches produce, Err when the layer-1 search_by_vector fails, else
\* the deduplicated all_candidates (empty when layer 1 finds nothing).
multi_layer_search(expansion, limit, rerank) ==
    IF ~expansion.ok THEN [ok |-> FALSE, results |-> <<>>]
    ELSE IF expansion.candidates = <<>> THEN [ok |-> TRUE, results |-> <<>>]
    ELSE apply_rerank(expansion.candidates, limit, rerank)

\* the match on multi_layer_search's result in a leaf task: Some(SubQueryResult) or None
LeafOutcome(found, leaf_id, top_n) ==
    IF found.ok
    THEN <<[node_id |-> leaf_id, results |-> Take(found.results, top_n)]>>
    ELSE <<>>

\* one leaf task of multi::search: encode, multi_layer_search, take(top_n)
LeafTask(leaf_id, env, c) ==
    IF ~env.encode_ok THEN <<>>
    ELSE LeafOutcome(multi_layer_search(env.expansion, c.candidates_per_query, env.rerank),
                     leaf_id, c.top_n_per_leaf)

\* ------------------------------------------------------------ the tree
leaf_count(ns) == Cardinality({k \in 1..Len(ns) : ns[k].children = <<>>})

get_leaves(ns) == {k \in 1..Len(ns) : ns[k].children = <<>>}

limit_children(subs, max_children) ==
    SubSeq(subs, 1, IF Len(subs) < max_children THEN Len(subs) ELSE max_children)

\* the level cap taken one level too late
LevelReachedLate(level, max_level) == level > max_level

\* loop head of the BFS: the level cap
LevelReached(level, max_level) == level >= max_level

\* loop head of the BFS: the leaf cap
LeavesReached(ns, max_total_leaves) == leaf_count(ns) >= max_total_leaves

\* whether a freshly added sub-question is queued for the next level
ShouldEnqueue(needs_refinement, level, ns, c) ==
    /\ needs_refinement
    /\ level + 1 < c.max_level
    /\ leaf_count(ns) < c.max_total_leaves

\* The body of `for sq in subqueries`, folded over the (already truncated) list.
\* st = [nodes, next]; parent = 0 for the original query.
RECURSIVE AddChildren(_, _, _, _, _)
AddChildren(st, subs, parent, level, c) ==
    IF subs = <<>> THEN st
    ELSE LET node_id == Len(st.nodes) + 1
             added == Append(st.nodes, [children |-> <<>>])
             linked == IF parent # 0
                       THEN [added EXCEPT ![parent].children = Append(@, node_id)]
                       ELSE added
             nxt == IF ShouldEnqueue(Head(subs), level, linked, c)
                    THEN Append(st.next, [parent |-> node_id, level |-> level + 1])
                    ELSE st.next
         IN AddChildren([nodes |-> linked, next |-> nxt], Tail(subs), parent, level, c)

DecompConfigs ==
    [max_level : 0..MaxLevel, max_children : 0..MaxChildren,
     max_total_leaves : 0..MaxTotalLeaves]

MqConfigs ==
    [candidates_per_query : 0..MaxPerLeaf, top_n_per_leaf : 0..MaxPerLeaf,
     min_per_leaf : 0..MaxPerLeaf, max_total_results : 0..MaxLimit, limit : 0..MaxLimit]

Join(a, b) == a @@ b

NoCalls == [embed |-> 0, expansion |-> 0, rerank |-> 0, summarize |-> 0]

TreeInit ==
    /\ nodes = <<>>
    /\ id_counter = 0
    /\ queue = <<[parent |-> 0, level |-> 0]>>
    /\ next_queue = <<>>
    /\ qi = 1
    /\ current_level = 0
    /\ failed = {}

SearchInit ==
    /\ leaves = <<>>
    /\ li = 1
    /\ sub_results = <<>>
    /\ leaf_log = <<>>
    /\ calls = NoCalls

CallInit ==
    /\ input = <<>>
    /\ output = <<>>
    /\ locals = <<>>

ResultInit ==
    /\ guaranteed = {}
    /\ merged = <<>>
    /\ final_memories = <<>>
    /\ chat_summary = <<>>
    /\ summary = <<>>
    /\ returned = "pending"

\* ------------------------------------------------------------ decompose.rs
\* while !queue.is_empty(): the two breaks, else the level's chat calls are joined
BfsBreak ==
    /\ pc = "bfs_head"
    /\ \/ queue = <<>>
       \/ LevelReached(current_level, cfg.max_level)
       \/ LeavesReached(nodes, cfg.max_total_leaves)
    /\ pc' = "tree_built"
    /\ UNCHANGED <<callVars, cfg, treeVars, searchVars, resultVars>>

BfsEnterLevel ==
    /\ pc = "bfs_head"
    /\ queue # <<>>
    /\ ~LevelReached(current_level, cfg.max_level)
    /\ ~LeavesReached(nodes, cfg.max_total_leaves)
    /\ pc' = "bfs_level"
    /\ qi' = 1
    /\ next_queue' = <<>>
    /\ UNCHANGED <<callVars, cfg, nodes, id_counter, queue, current_level, failed,
                   searchVars, resultVars>>

\* the error of one decompose task propagated with `?` instead of logged
OnDecomposeErrPropagated(entry) ==
    /\ failed' = failed \cup {entry.parent}
    /\ pc' = "done"
    /\ returned' = "err"
    /\ UNCHANGED <<callVars, cfg, nodes, id_counter, queue, next_queue, qi, current_level,
                   searchVars, guaranteed, merged, final_memories, chat_summary, summary>>

\* Err(e) => tracing::warn!(..): the entry adds nothing and the loop goes on
OnDecomposeErr(entry) ==
    /\ failed' = failed \cup {entry.parent}
    /\ qi' = qi + 1
    /\ UNCHANGED <<callVars, cfg, pc, nodes, id_counter, queue, next_queue, current_level,
                   searchVars, resultVars>>

\* one iteration of the post-join loop over (queue entry, result); a panic of a
\* decompose task unwinds through join_all and ends the request
ProcessEntry(reply) ==
    /\ pc = "bfs_level"
    /\ qi <= Len(queue)
    /\ LET entry == queue[qi]
           result == decompose_query(reply)
       IN CASE result.kind = "panic" ->
                 /\ pc' = "panicked"
                 /\ UNCHANGED <<callVars, cfg, treeVars, searchVars, resultVars>>
            [] result.kind = "err" -> OnDecomposeErr(entry)
            [] result.kind = "ok" ->
                 LET st == AddChildren([nodes |-> nodes, next |-> next_queue],
                                       limit_children(result.subs, cfg.max_children),
                                       entry.parent, entry.level, cfg)
                 IN /\ nodes' = st.nodes
                    /\ id_counter' = Len(st.nodes)
                    /\ next_queue' = st.next
                    /\ qi' = qi + 1
                    /\ UNCHANGED <<callVars, cfg, pc, queue, current_level, failed,
                                   searchVars, resultVars>>

\* end of the level: current_level_queue = next_level_queue; current_level += 1
BfsNextLevel ==
    /\ pc = "bfs_level"
    /\ qi > Len(queue)
    /\ queue' = next_queue
    /\ next_queue' = <<>>
    /\ qi' = 1
    /\ current_level' = current_level + 1
    /\ pc' = "bfs_head"
    /\ UNCHANGED <<callVars, cfg, nodes, id_counter, failed, searchVars, resultVars>>

\* ------------------------------------------------------------ multi.rs
\* LlmClient::from_resolved(&llm_config)?
BuildClient(ok) ==
    /\ pc = "start"
    /\ IF ok THEN pc' = "bfs_head" /\ returned' = returned
             ELSE pc' = "done" /\ returned' = "err"
    /\ UNCHANGED <<callVars, cfg, treeVars, searchVars, guaranteed, merged, final_memories,
                   chat_summary, summary>>

\* tree.get_leaves() and the early return on an empty tree
GetLeaves ==
    /\ pc = "tree_built"
    /\ \E order \in Perms(get_leaves(nodes)) :
          /\ leaves' = order
          /\ IF order = <<>>
             THEN pc' = "done" /\ returned' = "ok"
             ELSE pc' = "searching" /\ returned' = returned
    /\ li' = 1
    /\ UNCHANGED <<callVars, cfg, treeVars, sub_results, leaf_log, calls, guaranteed, merged,
                   final_memories, chat_summary, summary>>

\* the calls a leaf task issues in the environment env
LeafCalls(env, c) ==
    LET searched == env.encode_ok
        ranked == searched /\ env.expansion.ok
                  /\ should_use_rerank(env.expansion.candidates, c.candidates_per_query)
    IN [embed |-> 1,
        expansion |-> IF searched THEN 1 ELSE 0,
        rerank |-> IF ranked THEN 1 ELSE 0,
        summarize |-> 0]

AddCalls(a, b) == [k \in DOMAIN a |-> a[k] + b[k]]

\* one leaf task runs to completion; join_all keeps the tasks' order
RunLeaf(env) ==
    /\ pc = "searching"
    /\ li <= Len(leaves)
    /\ LET issued == LeafCalls(env, cfg)
       IN /\ sub_results' = sub_results \o LeafTask(leaves[li], env, cfg)
          /\ calls' = AddCalls(calls, issued)
          /\ leaf_log' = Append(leaf_log,
                 [node_id |-> leaves[li],
                  encode_ok |-> env.encode_ok,
                  storage_ok |-> issued.expansion = 0 \/ env.expansion.ok,
                  candidates |-> IF issued.expansion = 1 /\ env.expansion.ok
                                 THEN env.expansion.candidates ELSE <<>>,
                  rerank_failed |-> issued.rerank = 1 /\ ~env.rerank.ok])
    /\ li' = li + 1
    /\ UNCHANGED <<callVars, cfg, pc, treeVars, leaves, resultVars>>

\* after join_all: the early return when no leaf produced a SubQueryResult
JoinLeaves ==
    /\ pc = "searching"
    /\ li > Len(leaves)
    /\ IF sub_results = <<>>
       THEN pc' = "done" /\ returned' = "ok"
       ELSE pc' = "merging" /\ returned' = returned
    /\ UNCHANGED <<callVars, cfg, treeVars, searchVars, guaranteed, merged, final_memories,
                   chat_summary, summary>>

\* merge_results, then take(result_limit); an empty list skips the summary
MergeAndTake ==
    /\ pc = "merging"
    /\ \E m \in merge_results(sub_results, cfg) :
          /\ guaranteed' = m.guaranteed
          /\ merged' = m.final
          /\ final_memories' = FinalMemories(m.final, cfg)
          /\ IF FinalMemories(m.final, cfg) = <<>>
             THEN pc' = "done" /\ returned' = "ok"
             ELSE pc' = "summarizing" /\ returned' = returned
    /\ UNCHANGED <<callVars, cfg, treeVars, searchVars, chat_summary, summary>>

\* a failed summarize call made fatal
SummarizeResultFatal(reply) ==
    [returned |-> IF reply.ok THEN "ok" ELSE "err",
     summary |-> IF reply.ok THEN <<reply.text>> ELSE <<>>]

\* the match on summarize_results, which returns client.chat's result as it is:
\* Ok(text) => Some(text), Err(e) => None, and the request returns Ok either way
SummarizeResult(reply) ==
    [returned |-> "ok", summary |-> IF reply.ok THEN <<reply.text>> ELSE <<>>]

Summarize(reply) ==
    /\ pc = "summarizing"
    /\ chat_summary' = <<reply>>
    /\ summary' = SummarizeResult(reply).summary
    /\ returned' = SummarizeResult(reply).returned
    /\ calls' = [calls EXCEPT !.summarize = @ + 1]
    /\ pc' = "done"
    /\ UNCHANGED <<callVars, cfg, treeVars, leaves, li, sub_results, leaf_log, guaranteed, merged,
                   final_memories>>

\* ------------------------------------------------------------ environments
MemIds == 1..MaxMem

VectorResults(scores) == [id : MemIds, score : scores, score_type : {"Vector"}]

\* all_candidates: no id twice (the visited set)
CandidateLists(scores) ==
    {s \in SeqsUpTo(VectorResults(scores), MaxMem) :
        \A i, j \in 1..Len(s) : s[i].id = s[j].id => i = j}

RerankItems(scores) == [index : 0..MaxMem, score : scores]

RerankReplies(scores, n) ==
    {[ok |-> TRUE, items |-> it] : it \in SeqsUpTo(RerankItems(scores), n)}
        \cup {[ok |-> FALSE, items |-> <<>>]}

Expansions(scores) ==
    {[ok |-> TRUE, candidates |-> c] : c \in CandidateLists(scores)}
        \cup {[ok |-> FALSE, candidates |-> <<>>]}

LeafEnvs(scores, rscores, n) ==
    [encode_ok : BOOLEAN, expansion : Expansions(scores), rerank : RerankReplies(rscores, n)]

SummaryReplies ==
    {[ok |-> TRUE, text |-> "answer"], [ok |-> TRUE, text |-> ""], [ok |-> FALSE, text |-> ""]}

RerankScoreVals == {30, 95}

\* what a leaf task can hand to the merge: a vector-sorted list (descending, no id
\* twice) or the mapped answer of the rerank provider (any order, any repetition)
LeafResultLists ==
    {s \in SeqsUpTo(VectorResults(ScoreVals), MaxPerLeaf) :
        /\ \A i, j \in 1..Len(s) : s[i].id = s[j].id => i = j
        /\ \A i, j \in 1..Len(s) :
              i < j => unwrap_or(s[i].score, 0) >= unwrap_or(s[j].score, 0)}
    \cup SeqsUpTo([id : MemIds, score : {<<v>> : v \in RerankScoreVals},
                   score_type : {"Rerank"}], MaxPerLeaf)

\* sub_results after the join: one entry per surviving leaf, distinct node ids
SubResultLists ==
    UNION {{[i \in 1..n |-> [node_id |-> i, results |-> rs[i]]] :
               rs \in [1..n -> LeafResultLists]} : n \in 1..MaxSubResults}

\* ------------------------------------------------------------ specifications
\* build_decomposition_tree alone
InitDecompose ==
    /\ cfg \in DecompConfigs
    /\ pc = "bfs_head"
    /\ TreeInit /\ SearchInit /\ ResultInit /\ CallInit

NextDecompose ==
    \/ BfsBreak
    \/ BfsEnterLevel
    \/ \E reply \in ChatReplies : ProcessEntry(reply)
    \/ BfsNextLevel

SpecDecompose == InitDecompose /\ [][NextDecompose]_vars

\* multi::search from the join of the leaf tasks on, over every list of sub-results
InitMerge ==
    /\ cfg \in {c \in MqConfigs : c.candidates_per_query = MaxPerLeaf
                                  /\ c.top_n_per_leaf = MaxPerLeaf}
    /\ pc = "merging"
    /\ TreeInit /\ ResultInit /\ CallInit
    /\ leaves = <<>> /\ li = 1 /\ leaf_log = <<>> /\ calls = NoCalls
    /\ sub_results \in SubResultLists

NextMerge ==
    \/ MergeAndTake
    \/ \E reply \in SummaryReplies : Summarize(reply)

SpecMerge == InitMerge /\ [][NextMerge]_vars

\* multi::search for a tree of one leaf, over every environment of the leaf task
InitLeaf ==
    /\ cfg \in MqConfigs
    /\ pc = "searching"
    /\ nodes = <<[children |-> <<>>]>>
    /\ id_counter = 1
    /\ queue = <<>> /\ next_queue = <<>> /\ qi = 1 /\ current_level = 1
    /\ failed = {}
    /\ leaves = <<1>> /\ li = 1 /\ sub_results = <<>> /\ leaf_log = <<>> /\ calls = NoCalls
    /\ ResultInit /\ CallInit

AllLeafEnvs == LeafEnvs(ScoreVals, RerankScoreVals, MaxMem)

NextLeaf ==
    \/ \E env \in AllLeafEnvs : RunLeaf(env)
    \/ JoinLeaves
    \/ MergeAndTake
    \/ \E reply \in SummaryReplies : Summarize(reply)

SpecLeaf == InitLeaf /\ [][NextLeaf]_vars

\* the whole request: every tree, a handful of leaf environments
Hit(m, v) == [id |-> m, score |-> <<v>>, score_type |-> "Vector"]

NoRerank == [ok |-> FALSE, items |-> <<>>]

RequestLeafEnvs ==
    {[encode_ok |-> FALSE, expansion |-> [ok |-> FALSE, candidates |-> <<>>], rerank |-> NoRerank],
     [encode_ok |-> TRUE, expansion |-> [ok |-> FALSE, candidates |-> <<>>], rerank |-> NoRerank],
     [encode_ok |-> TRUE, expansion |-> [ok |-> TRUE, candidates |-> <<>>], rerank |-> NoRerank],
     [encode_ok |-> TRUE, expansion |-> [ok |-> TRUE, candidates |-> <<Hit(1, 90)>>],
      rerank |-> NoRerank],
     [encode_ok |-> TRUE, expansion |-> [ok |-> TRUE, candidates |-> <<Hit(1, 50), Hit(2, 50)>>],
      rerank |-> NoRerank],
     [encode_ok |-> TRUE, expansion |-> [ok |-> TRUE, candidates |-> <<Hit(1, 50), Hit(2, 50)>>],
      rerank |-> [ok |-> TRUE, items |-> <<[index |-> 1, score |-> 95]>>]]}

RequestMqConfig ==
    [candidates_per_query |-> 1, top_n_per_leaf |-> MaxPerLeaf, min_per_leaf |-> 1,
     max_total_results |-> MaxLimit, limit |-> MaxLimit]

RequestConfigs == {Join(d, RequestMqConfig) : d \in DecompConfigs}

Init ==
    /\ cfg \in RequestConfigs
    /\ pc = "start"
    /\ TreeInit /\ SearchInit /\ ResultInit /\ CallInit

Next ==
    \/ \E ok \in BOOLEAN : BuildClient(ok)
    \/ BfsBreak
    \/ BfsEnterLevel
    \/ \E reply \in ChatReplies : ProcessEntry(reply)
    \/ BfsNextLevel
    \/ GetLeaves
    \/ \E env \in RequestLeafEnvs : RunLeaf(env)
    \/ JoinLeaves
    \/ MergeAndTake
    \/ \E reply \in SummaryReplies : Summarize(reply)

Spec == Init /\ [][Next]_vars

\* apply_rerank called on its own: candidate lists long enough for each arm of
\* should_use_rerank, and provider answers with repeated and out-of-range indices
MaxCandidates == 26
MaxRankLimit == 2

RankScoreVals == {<<>>, <<80>>, <<81>>, <<85>>, <<86>>}

\* n candidates with distinct ids, the first half scored a and the rest b
CandidateRun(n, a, b) ==
    [i \in 1..n |-> [id |-> i, score |-> IF 2 * i <= n THEN a ELSE b, score_type |-> "Vector"]]

CandidateRuns ==
    {CandidateRun(n, a, b) : n \in 0..MaxCandidates, a \in RankScoreVals, b \in RankScoreVals}

RankItems ==
    {[index |-> 0, score |-> 30], [index |-> 1, score |-> 95],
     [index |-> MaxCandidates + 1, score |-> 95]}

RankReplies ==
    {[ok |-> TRUE, items |-> it] : it \in SeqsUpTo(RankItems, MaxRankLimit + 1)}
        \cup {[ok |-> FALSE, items |-> <<>>]}

InitRerank ==
    /\ cfg = RequestMqConfig
    /\ pc = "apply_rerank"
    /\ TreeInit /\ SearchInit /\ ResultInit
    /\ input \in {<<a>> : a \in [all_candidates : CandidateRuns, limit : 0..MaxRankLimit,
                                    rerank : RankReplies]}
    /\ output = <<>>
    /\ locals = <<>>

\* one call of apply_rerank; the provider is called exactly when the skip branch
\* is not taken
ApplyRerank ==
    /\ pc = "apply_rerank"
    /\ LET a == input[1]
       IN /\ output' = <<apply_rerank(a.all_candidates, a.limit, a.rerank)>>
          /\ calls' = [calls EXCEPT !.rerank =
                          @ + IF should_use_rerank(a.all_candidates, a.limit) THEN 1 ELSE 0]
    /\ pc' = "returned"
    /\ UNCHANGED <<cfg, treeVars, leaves, li, sub_results, leaf_log, resultVars, input, locals>>

NextRerank == ApplyRerank

SpecRerank == InitRerank /\ [][NextRerank]_vars

\* ------------------------------------------------------------ the join of a BFS level
\* build_decomposition_tree with the chat calls of a level completing one at a
\* time, in any order; the chat response is a fixed function of the queue entry.
JoinReplies ==
    {[ok |-> FALSE, text |-> <<>>]}
        \cup {[ok |-> TRUE, text |-> <<"open">> \o body \o <<"close">>] :
                 body \in {<<"sqT", "sqT">>, <<"sqT", "sqF">>, <<"sqT">>, <<"sqF">>}}

\* the response to the chat call of a queue entry
ReplyTo(replies, entry) == replies[entry.parent % (MaxChildren + 1)]

\* a stream of outputs in the order of completion
JoinSlotArrival(results, i, reply) ==
    LET free == CHOOSE k \in 1..Len(results) :
                    results[k] = <<>> /\ \A j \in 1..(k - 1) : results[j] # <<>>
    IN [results EXCEPT ![free] = <<reply>>]

\* join_all: the output of the i-th future is the i-th element of the Vec
JoinSlot(results, i, reply) == [results EXCEPT ![i] = <<reply>>]

InitJoin ==
    /\ cfg \in DecompConfigs
    /\ pc = "bfs_head"
    /\ TreeInit /\ SearchInit /\ ResultInit
    /\ input \in {<<a>> : a \in [replies : [0..MaxChildren -> JoinReplies]]}
    /\ output = <<>>
    /\ locals = <<>>

\* decompose_tasks collected and handed to join_all
SpawnLevel ==
    /\ pc = "bfs_head"
    /\ queue # <<>>
    /\ ~LevelReached(current_level, cfg.max_level)
    /\ ~LeavesReached(nodes, cfg.max_total_leaves)
    /\ pc' = "join_all"
    /\ locals' = <<[results |-> [i \in 1..Len(queue) |-> <<>>], arrival |-> <<>>]>>
    /\ UNCHANGED <<cfg, treeVars, searchVars, resultVars, input, output>>

\* the chat call of one queue entry completes
CompleteCall(i) ==
    /\ pc = "join_all"
    /\ i \in 1..Len(queue)
    /\ i \notin Range(locals[1].arrival)
    /\ locals' = <<[results |-> JoinSlot(locals[1].results, i, ReplyTo(input[1].replies, queue[i])),
                    arrival |-> Append(locals[1].arrival, i)]>>
    /\ UNCHANGED <<cfg, pc, treeVars, searchVars, resultVars, input, output>>

\* join_all(decompose_tasks).await returns once every call has completed
Joined ==
    /\ pc = "join_all"
    /\ Len(locals[1].arrival) = Len(queue)
    /\ pc' = "bfs_level"
    /\ qi' = 1
    /\ next_queue' = <<>>
    /\ UNCHANGED <<callVars, cfg, nodes, id_counter, queue, current_level, failed,
                   searchVars, resultVars>>

\* `for (entry, result) in current_level_queue.iter().zip(results)`
ProcessJoined == pc = "bfs_level" /\ qi <= Len(queue) /\ ProcessEntry(locals[1].results[qi][1])

NextJoin ==
    \/ BfsBreak
    \/ SpawnLevel
    \/ \E i \in 1..(MaxChildren + 1) : CompleteCall(i)
    \/ Joined
    \/ ProcessJoined
    \/ BfsNextLevel

SpecJoin == InitJoin /\ [][NextJoin]_vars

\* ------------------------------------------------------------ merge_results run twice
MaxMergeMem == 3

\* what a leaf hands over after a vector sort, over MaxMergeMem memories
MergeLeafLists ==
    {s \in SeqsUpTo([id : 1..MaxMergeMem, score : ScoreVals, score_type : {"Vector"}],
                    MaxPerLeaf) :
        /\ \A i, j \in 1..Len(s) : s[i].id = s[j].id => i = j
        /\ \A i, j \in 1..Len(s) :
              i < j => unwrap_or(s[i].score, 0) >= unwrap_or(s[j].score, 0)}

MergeInputs ==
    UNION {{[i \in 1..n |-> [node_id |-> i, results |-> rs[i]]] :
               rs \in [1..n -> MergeLeafLists]} : n \in 1..MaxSubResults}

MergeConfigs ==
    [min_per_leaf : 0..MaxPerLeaf, max_total_results : 0..MaxMergeMem, limit : {MaxMergeMem}]

\* the same sub-results under fresh node ids
Renamed(subs) == [i \in 1..Len(subs) |-> [subs[i] EXCEPT !.node_id = @ + Len(subs)]]

\* the sub-results in the order another iteration of the node map gives the leaves
Reordered(subs) ==
    {[i \in 1..Len(subs) |-> subs[order[i]]] : order \in Perms(1..Len(subs))}

InitMergeRuns ==
    /\ cfg = RequestMqConfig
    /\ pc = "merge_results"
    /\ TreeInit /\ SearchInit /\ ResultInit
    /\ input \in {<<a>> : a \in [sub_results : MergeInputs, config : MergeConfigs]}
    /\ output = <<>>
    /\ locals = <<>>

\* two runs of the merge on the same leaf results
MergeAgain ==
    /\ pc = "merge_results"
    /\ \E again \in Reordered(input[1].sub_results) :
          \E a \in merge_results(input[1].sub_results, input[1].config),
             b \in merge_results(again, input[1].config) :
              output' = <<[run |-> "again", first |-> a.final, second |-> b.final]>>
    /\ pc' = "returned"
    /\ UNCHANGED <<cfg, treeVars, searchVars, resultVars, input, locals>>

\* the merge of a list and of the list followed by its renamed copy
MergeDoubled ==
    /\ pc = "merge_results"
    /\ LET subs == input[1].sub_results
       IN \E a \in merge_results(subs, input[1].config),
             b \in merge_results(subs \o Renamed(subs), input[1].config) :
              output' = <<[run |-> "doubled", first |-> a.final, second |-> b.final]>>
    /\ pc' = "returned"
    /\ UNCHANGED <<cfg, treeVars, searchVars, resultVars, input, locals>>

NextMergeRuns == MergeAgain \/ MergeDoubled

SpecMergeRuns == InitMergeRuns /\ [][NextMergeRuns]_vars

\* ------------------------------------------------------------ merge_results stage by stage
\* what a leaf can return for a memory: a vector hit without a distance, with a
\* distance above 1 or below it, or a reranked hit
StageItems ==
    [id : MemIds, score : {<<>>, <<-20>>, <<50>>}, score_type : {"Vector"}]
        \cup [id : MemIds, score : {<<50>>, <<90>>}, score_type : {"Rerank"}]

StageInputs ==
    UNION {{[i \in 1..n |-> [node_id |-> i, results |-> rs[i]]] :
               rs \in [1..n -> SeqsUpTo(StageItems, MaxPerLeaf)]} : n \in 1..MaxSubResults}

InitStages ==
    /\ cfg = RequestMqConfig
    /\ pc = "stage_a"
    /\ TreeInit /\ SearchInit /\ ResultInit
    /\ input \in {<<a>> : a \in [sub_results : StageInputs,
                                  config : [min_per_leaf : {1}, max_total_results : {MaxMem}]]}
    /\ output = <<>>
    /\ locals = <<>>

\* the two loops that fill id_map
CollapseAll ==
    /\ pc = "stage_a"
    /\ locals' = <<[id_map |-> StageA(<<>>, input[1].sub_results), merged |-> <<>>]>>
    /\ pc' = "stage_b"
    /\ UNCHANGED <<cfg, treeVars, searchVars, resultVars, input, output>>

\* id_map.into_values().collect() and merged.sort_by(..)
SortMerged ==
    /\ pc = "stage_b"
    /\ \E sorted \in SortedMerged(locals[1].id_map) :
          locals' = <<[locals[1] EXCEPT !.merged = sorted]>>
    /\ pc' = "stage_c"
    /\ UNCHANGED <<cfg, treeVars, searchVars, resultVars, input, output>>

\* collect_guaranteed_results and build_final_results on the sorted list
GuaranteeAndBuild ==
    /\ pc = "stage_c"
    /\ LET c == input[1].config
           guaranteed_ids ==
               collect_guaranteed_results(locals[1].merged, input[1].sub_results, c.min_per_leaf)
       IN output' = <<build_final_results(locals[1].merged, guaranteed_ids, c.max_total_results)>>
    /\ pc' = "returned"
    /\ UNCHANGED <<cfg, treeVars, searchVars, resultVars, input, locals>>

NextStages == CollapseAll \/ SortMerged \/ GuaranteeAndBuild

SpecStages == InitStages /\ [][NextStages]_vars

\* ------------------------------------------------------------ search/mod.rs
\* A date argument is None, or Some of a string: a string in one of the two
\* accepted formats, naming a day and a minute of it, or a string in neither.
MaxDay == 2
MaxMinute == 1
MillisPerDay == 86400000
MillisPerMinute == 60000

DateStrings ==
    [format : {"%Y-%m-%d %H:%M"}, day : 0..MaxDay, minute : 0..MaxMinute]
        \cup [format : {"%Y-%m-%d"}, day : 0..MaxDay, minute : {0}]
        \cup [format : {"other"}, day : {0}, minute : {0}]

DateArgs == {<<>>} \cup {<<d>> : d \in DateStrings}

\* parse_datetime: "%Y-%m-%d %H:%M", then "%Y-%m-%d" at 00:00, else the bail
parse_datetime(str) ==
    IF str.format = "%Y-%m-%d %H:%M"
    THEN [ok |-> TRUE, ts |-> str.day * MillisPerDay + str.minute * MillisPerMinute]
    ELSE IF str.format = "%Y-%m-%d"
    THEN [ok |-> TRUE, ts |-> str.day * MillisPerDay]
    ELSE [ok |-> FALSE, ts |-> 0]

\* Option::map(parse_datetime).transpose()
ParseOpt(arg) ==
    IF arg = <<>> THEN [ok |-> TRUE, ts |-> <<>>]
    ELSE LET parsed == parse_datetime(arg[1])
         IN IF parsed.ok THEN [ok |-> TRUE, ts |-> <<parsed.ts>>] ELSE [ok |-> FALSE, ts |-> <<>>]

build_time_range(after, before) ==
    IF after = <<>> /\ before = <<>> THEN [ok |-> TRUE, range |-> <<>>]
    ELSE IF ~ParseOpt(after).ok \/ ~ParseOpt(before).ok THEN [ok |-> FALSE, range |-> <<>>]
    ELSE [ok |-> TRUE,
          range |-> <<[after |-> ParseOpt(after).ts, before |-> ParseOpt(before).ts]>>]

InitTimeRange ==
    /\ cfg = RequestMqConfig
    /\ pc = "build_time_range"
    /\ TreeInit /\ SearchInit /\ ResultInit
    /\ input \in {<<a>> : a \in [after : DateArgs, before : DateArgs]}
    /\ output = <<>>
    /\ locals = <<>>

BuildTimeRange ==
    /\ pc = "build_time_range"
    /\ output' = <<build_time_range(input[1].after, input[1].before)>>
    /\ pc' = "returned"
    /\ UNCHANGED <<cfg, treeVars, searchVars, resultVars, input, locals>>

NextTimeRange == BuildTimeRange

SpecTimeRange == InitTimeRange /\ [][NextTimeRange]_vars

\* ------------------------------------------------------------ llm/utils.rs
\* A sub-question's text is a sequence of runs of one character: a space, an
\* ASCII letter (1 byte in UTF-8) or a CJK character (3 bytes).
MIN_QUERY_LEN == 5
MAX_QUERY_LEN == 300
MaxRun == 6

VALID_DIMENSIONS == {"core", "why", "how", "case", "note"}

Utf8Len(ch) == IF ch = "cjk" THEN 3 ELSE 1

RunLengths == 1..MaxRun \cup ((MAX_QUERY_LEN \div 3 - 1)..(MAX_QUERY_LEN \div 3 + 1))
                 \cup ((MAX_QUERY_LEN - 1)..(MAX_QUERY_LEN + 1))

QueryTexts ==
    {lead \o body \o trail :
        lead \in {<<>>, <<[ch |-> " ", n |-> 1]>>},
        body \in {<<>>} \cup {<<[ch |-> c, n |-> k]>> : c \in {"ascii", "cjk"}, k \in RunLengths},
        trail \in {<<>>, <<[ch |-> " ", n |-> 2]>>}}

\* str::trim: the runs of white space at both ends dropped
RECURSIVE TrimStart(_)
TrimStart(text) ==
    IF text # <<>> /\ Head(text).ch = " " THEN TrimStart(Tail(text)) ELSE text

RECURSIVE TrimEnd(_)
TrimEnd(text) ==
    IF text # <<>> /\ text[Len(text)].ch = " "
    THEN TrimEnd(SubSeq(text, 1, Len(text) - 1)) ELSE text

trim(text) == TrimEnd(TrimStart(text))

\* str::len: the length in bytes
RECURSIVE len(_)
len(text) == IF text = <<>> THEN 0 ELSE Head(text).n * Utf8Len(Head(text).ch) + len(Tail(text))

is_valid_dimension(dim) == dim \in VALID_DIMENSIONS

is_valid_query(query) ==
    len(trim(query)) >= MIN_QUERY_LEN /\ len(trim(query)) <= MAX_QUERY_LEN

InitValidate ==
    /\ cfg = RequestMqConfig
    /\ pc = "filter_map"
    /\ TreeInit /\ SearchInit /\ ResultInit
    /\ input \in {<<a>> : a \in [dimension : {"core", "note", "who"}, query : QueryTexts]}
    /\ output = <<>>
    /\ locals = <<>>

\* the closure of filter_map in parse_decomposition_xml on one <subquery>
KeepSubquery ==
    /\ pc = "filter_map"
    /\ output' = <<is_valid_dimension(input[1].dimension) /\ is_valid_query(input[1].query)>>
    /\ pc' = "returned"
    /\ UNCHANGED <<cfg, treeVars, searchVars, resultVars, input, locals>>

NextValidate == KeepSubquery

SpecValidate == InitValidate /\ [][NextValidate]_vars

\* ------------------------------------------------------------ storage
\* A store holds memories 1..n; a vector is a position on a line and the index's
\* _distance between two vectors is DistStep hundredths per step between them.
MaxStore == 3
MaxPos == 3
DistStep == 60

Abs(x) == IF x < 0 THEN -x ELSE x

Distance(store, from, m) == DistStep * Abs(from - store.pos[m])

\* insertion of memory m into a list of memories that is nearest-first from `from`
RECURSIVE InsertNear(_, _, _, _)
InsertNear(store, from, sorted, m) ==
    IF sorted = <<>> THEN <<m>>
    ELSE IF Distance(store, from, Head(sorted)) <= Distance(store, from, m)
         THEN <<Head(sorted)>> \o InsertNear(store, from, Tail(sorted), m)
         ELSE <<m>> \o sorted

\* table.vector_search(vector).limit(limit): the nearest rows first
RECURSIVE NearestFirst(_, _, _)
NearestFirst(store, from, n) ==
    IF n = 0 THEN <<>>
    ELSE InsertNear(store, from, NearestFirst(store, from, n - 1), n)

\* parse_query_results: score = 1.0 - _distance, rows with score < threshold skipped
RowScore(distance) == 100 - distance

\* the threshold test turned around: rows with score > threshold skipped

parse_query_results_inverted(store, from, rows, threshold) ==
    LET result(m) == [id |-> m, score |-> <<RowScore(Distance(store, from, m))>>,
                      score_type |-> "Vector", tags |-> store.tags[m]]
        kept(m) == ~(RowScore(Distance(store, from, m)) > threshold)
        hits == SelectSeq(rows, kept)
    IN [i \in 1..Len(hits) |-> result(hits[i])]

parse_query_results(store, from, rows, threshold) ==
    LET result(m) == [id |-> m, score |-> <<RowScore(Distance(store, from, m))>>,
                      score_type |-> "Vector", tags |-> store.tags[m]]
        kept(m) == ~(RowScore(Distance(store, from, m)) < threshold)
        hits == SelectSeq(rows, kept)
    IN [i \in 1..Len(hits) |-> result(hits[i])]

\* LocalStorageClient::search_by_vector without a time range
search_by_vector(store, from, limit, threshold) ==
    parse_query_results(store, from, Take(NearestFirst(store, from, store.n), limit), threshold)

\* ------------------------------------------------------------ SearchConfig
\* memo_types::SearchConfig::new(threshold, max_nodes) and generate_thresholds
max_depth == 3
MinBranchLimit == 5
ThresholdStep == 5
ThresholdCeiling == 95

Max(a, b) == IF a > b THEN a ELSE b

CeilDiv(a, b) == (a + b - 1) \div b

branch_limit(max_nodes) == Max(MinBranchLimit, CeilDiv(max_nodes, max_depth * 2))

generate_thresholds(threshold) ==
    [i \in 1..max_depth |->
        IF i = 1 THEN threshold ELSE Min(threshold + (i - 1) * ThresholdStep, ThresholdCeiling)]

\* ------------------------------------------------------------ the layers
SmallLimit == 10
MinNodes == 50
NodesPerResult == 10

\* the budget as a floor: the larger of 50 and limit * 10
max_nodes_floor(limit) ==
    IF limit * NodesPerResult > MinNodes THEN limit * NodesPerResult ELSE MinNodes

\* let max_nodes = if limit < 10 { 50 } else { limit * 10 }
max_nodes(limit) == IF limit < SmallLimit THEN MinNodes ELSE limit * NodesPerResult

\* `for rel in related`: visited.insert, the two pushes, the break at max_nodes
RECURSIVE AbsorbRelated(_, _, _)
AbsorbRelated(st, related, cap) ==
    IF related = <<>> THEN st
    ELSE LET rel == Head(related)
         IN IF rel.id \in st.visited
            THEN AbsorbRelated(st, Tail(related), cap)
            ELSE LET grown == [visited |-> st.visited \cup {rel.id},
                               all_candidates |-> Append(st.all_candidates, rel),
                               next_layer_results |-> Append(st.next_layer_results, rel)]
                 IN IF Len(grown.all_candidates) >= cap THEN grown
                    ELSE AbsorbRelated(grown, Tail(related), cap)

\* `for related_result in all_related`, in the order join_all keeps
RECURSIVE AbsorbAll(_, _, _)
AbsorbAll(st, all_related, cap) ==
    IF all_related = <<>> THEN st
    ELSE LET grown == AbsorbRelated(st, Head(all_related), cap)
         IN IF Len(grown.all_candidates) >= cap THEN grown
            ELSE AbsorbAll(grown, Tail(all_related), cap)

\* a search task without the tag-overlap gate
BranchSearchUngated(store, result, limit, layer_threshold) ==
    IF result.id \notin 1..store.n THEN <<>>
    ELSE Take(search_by_vector(store, store.pos[result.id], limit * 2, layer_threshold), limit)

\* one search task of a layer: find_memory_by_id, search_by_vector from the
\* memory's own vector, the tag-overlap gate, truncate(branch_limit)
BranchSearch(store, result, limit, layer_threshold) ==
    IF result.id \notin 1..store.n THEN <<>>
    ELSE LET related == search_by_vector(store, store.pos[result.id], limit * 2, layer_threshold)
             overlaps(r) == r.tags \cap store.tags[result.id] # {}
         IN Take(SelectSeq(related, overlaps), limit)

\* the loop over thresholds.iter().enumerate().skip(1).take(max_layers - 1)
RECURSIVE ExpandLayers(_, _, _, _, _, _)
ExpandLayers(store, st, current_layer_results, layer, thresholds, cap) ==
    IF layer > Min(Len(thresholds), max_depth)
       \/ Len(st.all_candidates) >= cap \/ current_layer_results = <<>>
    THEN st.all_candidates
    ELSE LET all_related ==
                 [i \in 1..Len(current_layer_results) |->
                     BranchSearch(store, current_layer_results[i], branch_limit(cap),
                                  thresholds[layer])]
             grown == AbsorbAll([st EXCEPT !.next_layer_results = <<>>], all_related, cap)
         IN ExpandLayers(store, grown, grown.next_layer_results, layer + 1, thresholds, cap)

\* `for result in &current_layer_results`: the layer-1 results enter all_candidates
RECURSIVE AbsorbFirst(_, _)
AbsorbFirst(st, results) ==
    IF results = <<>> THEN st
    ELSE LET r == Head(results)
         IN IF r.id \in st.visited THEN AbsorbFirst(st, Tail(results))
            ELSE AbsorbFirst([st EXCEPT !.visited = @ \cup {r.id},
                                        !.all_candidates = Append(@, r)], Tail(results))

\* multi_layer_search up to the call of apply_rerank: Err when the layer-1 search
\* fails, else all_candidates
LayerExpansion(store, query_vector, limit, threshold) ==
    LET cap == max_nodes(limit)
        thresholds == generate_thresholds(threshold)
        first == search_by_vector(store, query_vector, branch_limit(cap), thresholds[1])
        st == AbsorbFirst([visited |-> {}, all_candidates |-> <<>>,
                           next_layer_results |-> <<>>], first)
    IN IF ~store.up THEN [ok |-> FALSE, candidates |-> <<>>]
       ELSE IF first = <<>> THEN [ok |-> TRUE, candidates |-> <<>>]
       ELSE [ok |-> TRUE, candidates |-> ExpandLayers(store, st, first, 2, thresholds, cap)]

\* ------------------------------------------------------------ the budget of a search
MaxBudgetLimit == 60

InitBudget ==
    /\ cfg = RequestMqConfig
    /\ pc = "search_config"
    /\ TreeInit /\ SearchInit /\ ResultInit
    /\ input \in {<<a>> : a \in [limit : 0..MaxBudgetLimit]}
    /\ output = <<>>
    /\ locals = <<>>

\* the first two statements of multi_layer_search
NewSearchConfig ==
    /\ pc = "search_config"
    /\ output' = <<[max_nodes |-> max_nodes(input[1].limit),
                    branch_limit |-> branch_limit(max_nodes(input[1].limit))]>>
    /\ pc' = "returned"
    /\ UNCHANGED <<cfg, treeVars, searchVars, resultVars, input, locals>>

NextBudget == NewSearchConfig

SpecBudget == InitBudget /\ [][NextBudget]_vars

\* ------------------------------------------------------------ multi_layer_search on a store
MaxEngineLimit == 3

TagSets == {{"a"}, {"b"}}

\* every store that answers, and one whose searches fail
Stores ==
    UNION {[n : {n}, up : {TRUE}, pos : [1..n -> 0..MaxPos], tags : [1..n -> TagSets]] :
              n \in 0..MaxStore}
        \cup {[n |-> 0, up |-> FALSE, pos |-> <<>>, tags |-> <<>>]}

QueryVectors == 0..1

ThresholdVals == {-50, 30, 90}

\* a rerank provider is a function of the documents and top_n: it fails, or
\* ranks the last document first and honours top_n, or ranks every document
RerankPolicies == {"fail", "last_first", "all"}

RerankAnswer(policy, documents, top_n) ==
    LET n == Len(documents)
        item(i) == [index |-> n - i, score |-> IF i = 1 THEN 95 ELSE 30]
        ranked == [i \in 1..n |-> item(i)]
    IN CASE policy = "fail" -> [ok |-> FALSE, items |-> <<>>]
         [] policy = "last_first" -> [ok |-> TRUE, items |-> Take(ranked, top_n)]
         [] OTHER -> [ok |-> TRUE, items |-> ranked]

\* threshold pairs: the same search at a threshold and at one not above it
ThresholdPairs == {p \in ThresholdVals \X ThresholdVals : p[1] >= p[2]}

EngineInputs ==
    [store : Stores, query_vector : QueryVectors, limit : 0..MaxEngineLimit,
     thresholds : ThresholdPairs, policy : RerankPolicies]

InitEngine ==
    /\ cfg = RequestMqConfig
    /\ pc = "multi_layer_search"
    /\ TreeInit /\ SearchInit /\ ResultInit
    /\ input \in {<<a>> : a \in EngineInputs}
    /\ output = <<>>
    /\ locals = <<>>

\* one call of multi_layer_search, at the next threshold of the input
SearchAtThreshold ==
    /\ pc = "multi_layer_search"
    /\ LET a == input[1]
           k == Len(output) + 1
           expansion == LayerExpansion(a.store, a.query_vector, a.limit, a.thresholds[k])
           answer == RerankAnswer(a.policy, expansion.candidates, a.limit)
           ranked == expansion.ok /\ expansion.candidates # <<>>
                     /\ should_use_rerank(expansion.candidates, a.limit)
       IN /\ output' = Append(output, multi_layer_search(expansion, a.limit, answer))
          /\ leaf_log' = Append(leaf_log, expansion)
          /\ calls' = [calls EXCEPT !.expansion = @ + 1,
                                    !.rerank = @ + IF ranked THEN 1 ELSE 0]
          /\ pc' = IF k = Len(a.thresholds) THEN "returned" ELSE pc
    /\ UNCHANGED <<cfg, treeVars, leaves, li, sub_results, resultVars, input, locals>>

NextEngine == SearchAtThreshold

SpecEngine == InitEngine /\ [][NextEngine]_vars

\* ------------------------------------------------------------ multi_layer_search step by step
\* The expansion with its loops unrolled: one step per storage round and per
\* iteration of the loops that fill all_candidates.
MaxBigStore == 54

\* a store large enough for the budget: memories spread over six positions,
\* tagged in turn
BigStore(n) ==
    [n |-> n, up |-> TRUE,
     pos |-> [m \in 1..n |-> (((m - 1) * 3) \div 5) % 6],
     tags |-> [m \in 1..n |-> IF m % 2 = 1 THEN {"a"} ELSE {"b"}]]

\* the small stores, a memory's tag list possibly empty
ExpandStores ==
    UNION {[n : {n}, up : {TRUE}, pos : [1..n -> 0..MaxPos],
            tags : [1..n -> TagSets \cup {{}}]] : n \in 0..MaxStore}
        \cup {[n |-> 0, up |-> FALSE, pos |-> <<>>, tags |-> <<>>]}

\* what goes wrong in the branch of memory `at`: nothing, find_memory_by_id
\* fails or finds nothing, or the branch's search_by_vector fails
ExpandFaults ==
    {[kind |-> "none", at |-> 0]}
        \cup [kind : {"find_err", "missing", "search_err"}, at : {1}]

ExpandInputs ==
    [store : ExpandStores, query_vector : QueryVectors, limit : {MaxEngineLimit},
     threshold : {30}, fault : ExpandFaults, policy : {"last_first"}]
        \cup [store : {BigStore(MaxBigStore)}, query_vector : 0..2, limit : {MaxEngineLimit},
              threshold : {-50}, fault : ExpandFaults, policy : {"last_first"}]

\* one search task of a layer, as join_all returns it
branch_task(store, fault, result, limit, layer_threshold) ==
    IF fault.at = result.id /\ fault.kind \in {"find_err", "search_err"}
    THEN [ok |-> FALSE, related |-> <<>>]
    ELSE IF fault.at = result.id /\ fault.kind = "missing"
    THEN [ok |-> TRUE, related |-> <<>>]
    ELSE [ok |-> TRUE, related |-> BranchSearch(store, result, limit, layer_threshold)]

\* every id taken for new
IsNewAlways(visited, id) == TRUE

\* visited.insert(id): true when the id was not in the set
IsNew(visited, id) == id \notin visited

\* `if visited.insert(..) { all_candidates.push(..); next_layer_results.push(..) }`
Absorb(l, r, to_next) ==
    IF IsNew(l.visited, r.id)
    THEN [l EXCEPT !.visited = @ \cup {r.id},
                   !.all_candidates = Append(@, r),
                   !.next_layer_results = IF to_next THEN Append(@, r) ELSE @]
    ELSE l

\* the budget never taken for reached
BudgetIgnored(all_candidates, cap) == FALSE

\* all_candidates.len() >= max_nodes
BudgetReached(all_candidates, cap) == Len(all_candidates) >= cap

InitExpand ==
    /\ cfg = RequestMqConfig
    /\ pc = "layer_1"
    /\ TreeInit /\ SearchInit /\ ResultInit
    /\ input \in {<<a>> : a \in ExpandInputs}
    /\ output = <<>>
    /\ locals = <<>>

\* the layer-1 search_by_vector, its `?` and the return on an empty result
SearchLayer1 ==
    /\ pc = "layer_1"
    /\ LET a == input[1]
           cap == max_nodes(a.limit)
           first == search_by_vector(a.store, a.query_vector, branch_limit(cap),
                                     generate_thresholds(a.threshold)[1])
       IN IF ~a.store.up \/ first = <<>>
          THEN /\ output' = <<[ok |-> a.store.up, results |-> <<>>]>>
               /\ pc' = "returned"
               /\ UNCHANGED locals
          ELSE /\ locals' = <<[visited |-> {}, all_candidates |-> <<>>,
                               current_layer_results |-> first,
                               next_layer_results |-> <<>>, layer_index |-> 0,
                               all_related |-> <<>>, bi |-> 1, ri |-> 1]>>
               /\ pc' = "first_loop"
               /\ UNCHANGED output
    /\ UNCHANGED <<cfg, treeVars, searchVars, resultVars, input>>

\* one iteration of `for result in &current_layer_results`
PushFirst ==
    /\ pc = "first_loop"
    /\ LET l == locals[1]
           grown == Absorb(l, l.current_layer_results[l.ri], FALSE)
       IN IF l.ri < Len(l.current_layer_results)
          THEN locals' = <<[grown EXCEPT !.ri = @ + 1]>> /\ pc' = pc
          ELSE locals' = <<[grown EXCEPT !.ri = 1, !.layer_index = 1]>> /\ pc' = "layer_loop"
    /\ UNCHANGED <<cfg, treeVars, searchVars, resultVars, input, output>>

\* whether the loop over the later thresholds runs its next iteration
LayerContinues(l, a) ==
    /\ l.layer_index <= Min(Len(generate_thresholds(a.threshold)), max_depth) - 1
    /\ ~BudgetReached(l.all_candidates, max_nodes(a.limit))
    /\ l.current_layer_results # <<>>

\* a layer starts: its search tasks are built and joined
StartLayer ==
    /\ pc = "layer_loop"
    /\ LayerContinues(locals[1], input[1])
    /\ LET l == locals[1]
           a == input[1]
           tasks == [i \in 1..Len(l.current_layer_results) |->
                        branch_task(a.store, a.fault, l.current_layer_results[i],
                                    branch_limit(max_nodes(a.limit)),
                                    generate_thresholds(a.threshold)[l.layer_index + 1])]
       IN locals' = <<[l EXCEPT !.all_related = tasks, !.next_layer_results = <<>>,
                                !.bi = 1, !.ri = 1]>>
    /\ pc' = "absorb"
    /\ UNCHANGED <<cfg, treeVars, searchVars, resultVars, input, output>>

\* the loop over the thresholds ends or breaks
LeaveLoop ==
    /\ pc = "layer_loop"
    /\ ~LayerContinues(locals[1], input[1])
    /\ pc' = "apply_rerank"
    /\ UNCHANGED <<cfg, treeVars, searchVars, resultVars, callVars>>

\* the error of a branch returned from the expansion
FailOnBranchErr ==
    /\ pc = "absorb"
    /\ locals[1].bi <= Len(locals[1].all_related)
    /\ ~locals[1].all_related[locals[1].bi].ok
    /\ output' = <<[ok |-> FALSE, results |-> <<>>]>>
    /\ pc' = "returned"
    /\ UNCHANGED <<cfg, treeVars, searchVars, resultVars, input, locals>>

\* Err(e) => { tracing::debug!(..); continue; }
SkipFailedBranch ==
    /\ pc = "absorb"
    /\ locals[1].bi <= Len(locals[1].all_related)
    /\ ~locals[1].all_related[locals[1].bi].ok
    /\ locals' = <<[locals[1] EXCEPT !.bi = @ + 1, !.ri = 1]>>
    /\ UNCHANGED <<cfg, pc, treeVars, searchVars, resultVars, input, output>>

\* one iteration of `for rel in related`, with its break
AbsorbRel ==
    /\ pc = "absorb"
    /\ locals[1].bi <= Len(locals[1].all_related)
    /\ locals[1].all_related[locals[1].bi].ok
    /\ locals[1].ri <= Len(locals[1].all_related[locals[1].bi].related)
    /\ LET l == locals[1]
           related == l.all_related[l.bi].related
           grown == Absorb(l, related[l.ri], TRUE)
           break == grown # l /\ BudgetReached(grown.all_candidates, max_nodes(input[1].limit))
       IN locals' = <<[grown EXCEPT !.ri = IF break THEN Len(related) + 1 ELSE @ + 1]>>
    /\ UNCHANGED <<cfg, pc, treeVars, searchVars, resultVars, input, output>>

\* after the inner loop: the break of the outer loop, or its next branch
NextBranch ==
    /\ pc = "absorb"
    /\ locals[1].bi <= Len(locals[1].all_related)
    /\ locals[1].all_related[locals[1].bi].ok
    /\ locals[1].ri > Len(locals[1].all_related[locals[1].bi].related)
    /\ LET l == locals[1]
       IN locals' = <<[l EXCEPT !.ri = 1,
                                !.bi = IF BudgetReached(l.all_candidates,
                                                        max_nodes(input[1].limit))
                                       THEN Len(l.all_related) + 1 ELSE @ + 1]>>
    /\ UNCHANGED <<cfg, pc, treeVars, searchVars, resultVars, input, output>>

\* current_layer_results = next_layer_results
EndLayer ==
    /\ pc = "absorb"
    /\ locals[1].bi > Len(locals[1].all_related)
    /\ locals' = <<[locals[1] EXCEPT !.current_layer_results = locals[1].next_layer_results,
                                     !.layer_index = @ + 1]>>
    /\ pc' = "layer_loop"
    /\ UNCHANGED <<cfg, treeVars, searchVars, resultVars, input, output>>

\* apply_rerank(all_candidates, query, limit, ..)
Rank ==
    /\ pc = "apply_rerank"
    /\ LET a == input[1]
           all_candidates == locals[1].all_candidates
       IN output' = <<apply_rerank(all_candidates, a.limit,
                                   RerankAnswer(a.policy, all_candidates, a.limit))>>
    /\ pc' = "returned"
    /\ UNCHANGED <<cfg, treeVars, searchVars, resultVars, input, locals>>

NextExpand ==
    \/ SearchLayer1
    \/ PushFirst
    \/ StartLayer
    \/ LeaveLoop
    \/ SkipFailedBranch
    \/ AbsorbRel
    \/ NextBranch
    \/ EndLayer
    \/ Rank

SpecExpand == InitExpand /\ [][NextExpand]_vars

\* ------------------------------------------------------------ LocalStorageClient::update
\* The memories table is a list of rows; the table does not keep ids unique.
\* Each storage call of update either succeeds or fails without effect.
MaxRows == 2
MaxCreated == 2

UpdateRows ==
    [id : MemIds, content : {"old"}, vector : {"v0"}, tags : {"t0"},
     created_at : 1..MaxCreated]

UpdateInputs ==
    [table : SeqsUpTo(UpdateRows, MaxRows), id : MemIds, content : {"new"},
     vector : {"v1"}, tags : {"t1"}, dimension_ok : BOOLEAN]

InitUpdate ==
    /\ cfg = RequestMqConfig
    /\ pc = "update"
    /\ TreeInit /\ SearchInit /\ ResultInit
    /\ input \in {<<a>> : a \in UpdateInputs}
    /\ output = <<>>
    /\ locals = <<>>

\* the dimension check, find_memory_by_id_impl and the new Memory
BeginUpdate(find_ok) ==
    /\ pc = "update"
    /\ LET a == input[1]
           found == SelectSeq(a.table, LAMBDA row : row.id = a.id)
       IN IF ~a.dimension_ok \/ ~find_ok \/ found = <<>>
          THEN /\ output' = <<[ok |-> FALSE]>>
               /\ locals' = <<[table |-> a.table, old_memory |-> <<>>, memory |-> <<>>]>>
               /\ pc' = "returned"
          ELSE /\ locals' = <<[table |-> a.table, old_memory |-> <<found[1]>>,
                               memory |-> <<[id |-> a.id, content |-> a.content,
                                             vector |-> a.vector, tags |-> a.tags,
                                             created_at |-> found[1].created_at]>>]>>
               /\ pc' = "delete"
               /\ UNCHANGED output
    /\ UNCHANGED <<cfg, treeVars, searchVars, resultVars, input>>

\* self.delete(id).await?
DeleteStep(delete_ok) ==
    /\ pc = "delete"
    /\ IF delete_ok
       THEN /\ locals' = <<[locals[1] EXCEPT
                               !.table = SelectSeq(@, LAMBDA row : row.id # input[1].id)]>>
            /\ pc' = "insert"
       ELSE /\ pc' = "restore"
            /\ UNCHANGED locals
    /\ UNCHANGED <<cfg, treeVars, searchVars, resultVars, input, output>>

\* self.insert(memory.clone()).await, and Ok(()) when it succeeds
InsertStep(insert_ok) ==
    /\ pc = "insert"
    /\ IF insert_ok
       THEN /\ locals' = <<[locals[1] EXCEPT !.table = Append(@, locals[1].memory[1])]>>
            /\ output' = <<[ok |-> TRUE]>>
            /\ pc' = "returned"
       ELSE /\ pc' = "restore"
            /\ UNCHANGED <<locals, output>>
    /\ UNCHANGED <<cfg, treeVars, searchVars, resultVars, input>>

\* `if let Err(e) = insert_result`: self.insert(old_memory), then Err either way
RestoreStep(restore_ok) ==
    /\ pc = "restore"
    /\ locals' = <<[locals[1] EXCEPT
                       !.table = IF restore_ok THEN Append(@, locals[1].old_memory[1]) ELSE @]>>
    /\ output' = <<[ok |-> FALSE]>>
    /\ pc' = "returned"
    /\ UNCHANGED <<cfg, treeVars, searchVars, resultVars, input>>

NextUpdate ==
    \/ \E find_ok \in BOOLEAN : BeginUpdate(find_ok)
    \/ \E delete_ok \in BOOLEAN : DeleteStep(delete_ok)
    \/ \E insert_ok \in BOOLEAN : InsertStep(insert_ok)
    \/ \E restore_ok \in BOOLEAN : RestoreStep(restore_ok)

SpecUpdate == InitUpdate /\ [][NextUpdate]_vars

\* ------------------------------------------------------------ properties
Parent(ns, k) ==
    IF \E p \in 1..Len(ns) : k \in Range(ns[p].children)
    THEN CHOOSE p \in 1..Len(ns) : k \in Range(ns[p].children)
    ELSE 0

RECURSIVE Depth(_, _)
Depth(ns, k) == IF Parent(ns, k) = 0 THEN 1 ELSE 1 + Depth(ns, Parent(ns, k))

IdsOf(results) == {results[i].id : i \in 1..Len(results)}

InputIds == UNION {IdsOf(sub_results[i].results) : i \in 1..Len(sub_results)}

\* positions of the final list whose sources include the leaf
FinalFrom(leaf) == {i \in 1..Len(final_memories) : leaf \in Range(merged[i].sources)}

\* C1: the list the request returns has at most min(limit, max_total_results)
\* entries and no memory id twice.
C1_ResultCapAndDistinct ==
    pc = "done" =>
        /\ Len(final_memories) <= Min(cfg.limit, cfg.max_total_results)
        /\ \A i, j \in 1..Len(final_memories) :
              final_memories[i].id = final_memories[j].id => i = j

C1_Witness ==
    /\ pc = "done"
    /\ Len(final_memories) >= 1
    /\ Len(final_memories) = Min(cfg.limit, cfg.max_total_results)
    /\ Cardinality(InputIds) > Len(final_memories)
    /\ \E a, b \in 1..Len(sub_results) :
          a # b /\ IdsOf(sub_results[a].results) \cap IdsOf(sub_results[b].results) # {}

C3_LeafCap == pc = "tree_built" => leaf_count(nodes) <= cfg.max_total_leaves

\* C4: every node of the tree has depth at most max_level, the children of the
\* original query having depth 1; with max_level = 0 the tree is empty.
C4_DepthCap ==
    /\ \A k \in 1..Len(nodes) : Depth(nodes, k) <= cfg.max_level
    /\ cfg.max_level = 0 => nodes = <<>>

C4_Witness ==
    /\ pc = "tree_built"
    /\ cfg.max_level >= 2
    /\ \E k \in 1..Len(nodes) : Depth(nodes, k) = cfg.max_level
    /\ \E k \in 1..Len(nodes) : Len(nodes[k].children) >= 2

\* C5: with max_total_leaves = 1 and a decomposition that produced sub-questions,
\* the request runs exactly one leaf search.
C5_SingleLeafSearch ==
    (pc = "done" /\ returned = "ok" /\ cfg.max_total_leaves = 1 /\ nodes # <<>>) =>
        /\ Len(leaves) = 1
        /\ calls.embed = 1
        /\ calls.expansion <= 1

\* C6: whatever the chat answers for one queue entry, build_decomposition_tree
\* goes on to return a tree, and an entry whose decomposition failed keeps its
\* node a leaf.
C6_FailureIsolated ==
    /\ pc # "panicked"
    /\ \A p \in failed \ {0} : nodes[p].children = <<>>

\* C7: when the decomposition of the original query fails to give a valid
\* sub-question, the request returns Ok with no result and no summary and has
\* issued no embedding, storage, rerank or summarize call.
C7_EmptyDecomposition ==
    0 \in failed =>
        /\ nodes = <<>>
        /\ calls = NoCalls
        /\ final_memories = <<>> /\ summary = <<>>
        /\ pc \in {"bfs_level", "bfs_head", "tree_built", "done"}
        /\ pc = "done" => returned = "ok"

C7_Witness == pc = "done" /\ 0 \in failed /\ returned = "ok" /\ cfg.max_total_leaves >= 1

\* C8: a leaf whose rerank call failed still hands the merge its candidates in
\* descending vector score, truncated to the leaf's limit.
C8_RerankFallback ==
    \A n \in 1..Len(leaf_log) :
        leaf_log[n].rerank_failed =>
            \E a \in 1..Len(sub_results) :
                /\ sub_results[a].node_id = leaf_log[n].node_id
                /\ sub_results[a].results =
                       Take(Take(SortByScoreDesc(leaf_log[n].candidates),
                                 cfg.candidates_per_query), cfg.top_n_per_leaf)

\* C9: a request in which a storage operation failed returns an error.
C9_StorageErrorFatal ==
    (pc = "done" /\ \E n \in 1..Len(leaf_log) : ~leaf_log[n].storage_ok) => returned = "err"

\* C10: once the summarize call was made the request returns Ok with the list it
\* took from the merge; the summary is None if the call failed and the chat's
\* text as it is otherwise.
C10_SummaryNonFatal ==
    (pc = "done" /\ chat_summary # <<>>) =>
        /\ returned = "ok"
        /\ final_memories # <<>>
        /\ final_memories = FinalMemories(merged, cfg)
        /\ summary = IF chat_summary[1].ok THEN <<chat_summary[1].text>> ELSE <<>>

C10_Witness ==
    /\ pc = "done"
    /\ chat_summary # <<>> /\ ~chat_summary[1].ok
    /\ Len(final_memories) >= 2
    /\ summary = <<>>

RECURSIVE ScoreTotal(_, _)
ScoreTotal(cands, n) ==
    IF n = 0 THEN 0
    ELSE ScoreTotal(cands, n - 1) + unwrap_or(cands[n].score, 0)

Scored(cands) == {i \in 1..Len(cands) : cands[i].score # <<>>}

\* the mean of the scores that are present (0 when none is) exceeds t hundredths
MeanAbove(cands, t) ==
    IF Scored(cands) = {} THEN 0 > t
    ELSE ScoreTotal(cands, Len(cands)) > t * Cardinality(Scored(cands))

\* C11: rerank is skipped if and only if there are at most limit candidates, or
\* 1 to 15 candidates with mean score above 0.80, or 16 to 25 candidates with mean
\* score above 0.85; in every other case the provider is called.
C11_SkipRerankIff ==
    (pc = "returned" /\ input # <<>>) =>
        LET c == input[1].all_candidates
        IN (calls.rerank = 0) <=>
               \/ Len(c) <= input[1].limit
               \/ Len(c) \in 1..15 /\ MeanAbove(c, 80)
               \/ Len(c) \in 16..25 /\ MeanAbove(c, 85)

C11_Witness ==
    /\ pc = "returned" /\ input # <<>>
    /\ Len(input[1].all_candidates) \in 16..25
    /\ \A i \in 1..Len(input[1].all_candidates) : input[1].all_candidates[i].score = <<85>>
    /\ calls.rerank = 1

ScoreOrZero(r) == unwrap_or(r.score, 0)

\* C12: when the selector skips rerank, apply_rerank returns the candidates in
\* descending score (a missing score counting as 0) cut to limit, each element
\* as it was among the candidates (same score, score_type Vector), and no rerank
\* call is made.
C12_SkipKeepsVectorOrder ==
    (pc = "returned" /\ input # <<>>
        /\ ~should_use_rerank(input[1].all_candidates, input[1].limit)) =>
        LET c == input[1].all_candidates
            r == output[1].results
        IN /\ output[1].ok
           /\ calls.rerank = 0
           /\ Len(r) = Min(Len(c), input[1].limit)
           /\ \A i \in 1..Len(r) : r[i] \in Range(c) /\ r[i].score_type = "Vector"
           /\ \A i, j \in 1..Len(r) : i < j => r[i] # r[j] /\ ScoreOrZero(r[i]) >= ScoreOrZero(r[j])
           /\ \A x \in Range(c) \ Range(r) : \A i \in 1..Len(r) : ScoreOrZero(r[i]) >= ScoreOrZero(x)

C12_Witness ==
    /\ pc = "returned" /\ input # <<>>
    /\ ~should_use_rerank(input[1].all_candidates, input[1].limit)
    /\ Len(input[1].all_candidates) > input[1].limit
    /\ Len(output[1].results) = 2
    /\ output[1].results[1].id > 2
    /\ output[1].results[2].score = <<86>>
    /\ \E i \in 1..Len(input[1].all_candidates) : input[1].all_candidates[i].score = <<>>

\* C13: when rerank is invoked and the provider answers, apply_rerank returns at
\* most limit elements, in the provider's order, each with the provider's score
\* and score_type Rerank, whatever the provider's answer is.
C13_RerankOrderAndLimit ==
    (pc = "returned" /\ input # <<>>
        /\ should_use_rerank(input[1].all_candidates, input[1].limit)
        /\ input[1].rerank.ok) =>
        LET c == input[1].all_candidates
            r == output[1].results
            known(item) == item.index + 1 \in 1..Len(c)
            valid == SelectSeq(input[1].rerank.items, known)
        IN /\ output[1].ok
           /\ Len(r) <= input[1].limit
           /\ Len(r) <= Len(valid)
           /\ \A i \in 1..Len(r) :
                  /\ r[i].id = c[valid[i].index + 1].id
                  /\ r[i].score = <<valid[i].score>>
                  /\ r[i].score_type = "Rerank"

\* C14: every result multi_layer_search surfaces has, when it has a score, a
\* score between 0 and 1, for every distance the index returns and every score
\* the rerank provider returns.
C14_ScoreInUnitRange ==
    \A k \in 1..Len(output) :
        (pc \in {"multi_layer_search", "returned"} /\ input # <<>> /\ output[k].ok) =>
            \A i \in 1..Len(output[k].results) :
                output[k].results[i].score # <<>> =>
                    output[k].results[i].score[1] \in 0..100

\* C15 as stated: with the same store, query vector, limit and provider, the ids
\* returned at a threshold are among the ids returned at any lower threshold.
C15_ThresholdMonotone ==
    (pc = "returned" /\ Len(output) = 2 /\ input[1].thresholds[1] > input[1].thresholds[2]
        /\ output[1].ok /\ output[2].ok) =>
        IdsOf(output[1].results) \subseteq IdsOf(output[2].results)

\* C15 amended: the same, provided the search at the lower threshold collects at
\* most limit candidates, so that it calls no rerank provider and truncates
\* nothing.
C15_MonotoneWithinLimit ==
    (pc = "returned" /\ Len(output) = 2 /\ input[1].thresholds[1] > input[1].thresholds[2]
        /\ output[1].ok /\ output[2].ok
        /\ Len(leaf_log[2].candidates) <= input[1].limit) =>
        IdsOf(output[1].results) \subseteq IdsOf(output[2].results)

C15_Witness ==
    /\ pc = "returned" /\ Len(output) = 2
    /\ input[1].thresholds[1] > input[1].thresholds[2]
    /\ output[1].ok /\ output[2].ok
    /\ Len(leaf_log[2].candidates) <= input[1].limit
    /\ output[1].results # <<>>
    /\ IdsOf(output[1].results) # IdsOf(output[2].results)
    /\ \E i \in 1..Len(output[2].results) :
          RowScore(Distance(input[1].store, input[1].query_vector, output[2].results[i].id))
              < input[1].thresholds[2]

MergedIds(list) == [i \in 1..Len(list) |-> list[i].memory.id]

\* the same ordering up to ties: position by position the same memory, or two
\* memories of the same score
SameUpToTies(x, y) ==
    /\ Len(x) = Len(y)
    /\ \A i \in 1..Len(x) :
          x[i].memory.id = y[i].memory.id \/ x[i].max_score = y[i].max_score

\* C16 as stated: merging a list followed by its copy under fresh node ids gives
\* the same final ordering of memory ids, up to ties, as merging the list alone.
C16_MergeIdempotent ==
    (pc = "returned" /\ output # <<>> /\ output[1].run = "doubled") =>
        SameUpToTies(output[1].first, output[1].second)

\* C16 amended: the same, provided min_per_leaf = 0.
C16_MergeIdempotentNoGuarantee ==
    (pc = "returned" /\ output # <<>> /\ output[1].run = "doubled"
        /\ input[1].config.min_per_leaf = 0) =>
        SameUpToTies(output[1].first, output[1].second)

C16_Witness ==
    /\ pc = "returned" /\ output # <<>> /\ output[1].run = "doubled"
    /\ input[1].config.min_per_leaf = 0
    /\ Len(input[1].sub_results) = 2
    /\ Len(output[1].first) = 2
    /\ output[1].first[1].max_score > output[1].first[2].max_score
    /\ Len(output[1].first[2].sources) = 2
    /\ Len(output[1].second[2].sources) = 4

\* C17: with the leaf results fixed, every run returns the same ordered list of
\* memory ids, whatever order the node map and the id map are iterated in.
C17_SameListEveryRun ==
    (pc = "returned" /\ output # <<>> /\ output[1].run = "again") =>
        MergedIds(Take(output[1].first, result_limit(input[1].config)))
            = MergedIds(Take(output[1].second, result_limit(input[1].config)))

C19_AfterNotPastBefore ==
    (pc = "returned" /\ input # <<>> /\ "after" \in DOMAIN input[1]
        /\ output[1].ok /\ output[1].range # <<>>) =>
        LET range == output[1].range[1]
        IN (range.after # <<>> /\ range.before # <<>>) => range.after[1] <= range.before[1]

\* the number of characters of a text
RECURSIVE Chars(_)
Chars(text) == IF text = <<>> THEN 0 ELSE Head(text).n + Chars(Tail(text))

\* C20: a sub-question with a valid dimension is kept if and only if its trimmed
\* text has between 5 and 300 characters.
C20_KeptIffLengthInRange ==
    (pc = "returned" /\ input # <<>> /\ "query" \in DOMAIN input[1]
        /\ input[1].dimension \in {"core", "why", "how", "case", "note"}) =>
        (output[1] <=> Chars(trim(input[1].query)) \in 5..300)

\* C21: for every limit the candidate budget is the larger of 50 and
\* limit * 10.
C21_BudgetIsFloor ==
    (pc = "returned" /\ input # <<>> /\ DOMAIN input[1] = {"limit"}) =>
        /\ output[1].max_nodes >= 50
        /\ output[1].max_nodes >= input[1].limit * 10
        /\ output[1].max_nodes \in {50, input[1].limit * 10}

\* C21, amended: the candidate budget is 50 for every limit below 10 and
\* limit * 10 for every other limit.
C21_BudgetBySize ==
    (pc = "returned" /\ input # <<>> /\ DOMAIN input[1] = {"limit"}) =>
        /\ input[1].limit < 10 => output[1].max_nodes = 50
        /\ input[1].limit >= 10 => output[1].max_nodes = input[1].limit * 10

C21_Witness ==
    /\ pc = "returned" /\ input # <<>> /\ DOMAIN input[1] = {"limit"}
    /\ input[1].limit \in 6..9
    /\ output[1].max_nodes = 50

\* the tree of a level's queue, its entries taken in queue order
RECURSIVE TreeOfQueue(_, _, _, _)
TreeOfQueue(st, q, replies, c) ==
    IF q = <<>> THEN st
    ELSE LET result == decompose_query(ReplyTo(replies, Head(q)))
             grown == IF result.kind = "ok"
                      THEN AddChildren(st, limit_children(result.subs, c.max_children),
                                       Head(q).parent, Head(q).level, c)
                      ELSE st
         IN TreeOfQueue(grown, Tail(q), replies, c)

\* the tree of the fixed responses, built level by level
RECURSIVE TreeOf(_, _, _, _, _)
TreeOf(ns, q, level, replies, c) ==
    IF q = <<>> \/ level >= c.max_level \/ leaf_count(ns) >= c.max_total_leaves THEN ns
    ELSE LET st == TreeOfQueue([nodes |-> ns, next |-> <<>>], q, replies, c)
         IN TreeOf(st.nodes, st.next, level + 1, replies, c)

\* C25: for fixed chat responses per queue entry the finished tree (ids and
\* parent/child links) is the one built in queue order, whatever the order in
\* which the chat calls of a level completed.
C25_TreeIgnoresCompletionOrder ==
    (pc = "tree_built" /\ input # <<>> /\ DOMAIN input[1] = {"replies"}) =>
        /\ nodes = TreeOf(<<>>, <<[parent |-> 0, level |-> 0]>>, 0, input[1].replies, cfg)
        /\ id_counter = Len(nodes)

\* a level of two calls whose second call completed first, with different
\* responses, and the tree finished
C25_Witness ==
    /\ pc = "tree_built" /\ input # <<>> /\ DOMAIN input[1] = {"replies"}
    /\ locals # <<>>
    /\ locals[1].arrival = <<2, 1>>
    /\ locals[1].results[1] # locals[1].results[2]
    /\ Len(nodes) > 2

\* every (leaf, memory) pair of the sub-results, in the order stage A walks them
RECURSIVE Appearances(_)
Appearances(subs) ==
    IF subs = <<>> THEN <<>>
    ELSE [i \in 1..Len(Head(subs).results) |->
             [leaf |-> Head(subs).node_id, memory |-> Head(subs).results[i]]]
         \o Appearances(Tail(subs))

AppearancesOf(subs, id) == SelectSeq(Appearances(subs), LAMBDA a : a.memory.id = id)

AtStage(stages) ==
    pc \in stages /\ input # <<>> /\ DOMAIN input[1] = {"sub_results", "config"}
        /\ locals # <<>>

\* C23: after stage A there is one MergedResult per memory id of the inputs; its
\* max_score is the highest score of the id (a missing score read as 0), its
\* memory.score (read the same way) and score_type are those of the first
\* appearance that attains that score, and its sources are the leaves that
\* returned the id, each once.
C23_StageACollapses ==
    AtStage({"stage_b", "stage_c", "returned"}) =>
        LET id_map == locals[1].id_map
            all == Appearances(input[1].sub_results)
        IN /\ DOMAIN id_map = {all[i].memory.id : i \in 1..Len(all)}
           /\ \A id \in DOMAIN id_map :
                LET mine == AppearancesOf(input[1].sub_results, id)
                    score(k) == unwrap_or(mine[k].memory.score, 0)
                    top == CHOOSE k \in 1..Len(mine) :
                               /\ \A j \in 1..Len(mine) : score(j) <= score(k)
                               /\ \A j \in 1..(k - 1) : score(j) < score(k)
                IN /\ id_map[id].memory.id = id
                   /\ id_map[id].max_score = score(top)
                   /\ unwrap_or(id_map[id].memory.score, 0) = score(top)
                   /\ id_map[id].memory.score_type = mine[top].memory.score_type
                   /\ Range(id_map[id].sources) = {mine[k].leaf : k \in 1..Len(mine)}
                   /\ \A a, b \in 1..Len(id_map[id].sources) :
                         id_map[id].sources[a] = id_map[id].sources[b] => a = b

\* a memory returned twice by one leaf and again, with a higher score and
\* another score type, by a second leaf
C23_Witness ==
    /\ AtStage({"stage_b"})
    /\ \E id \in DOMAIN locals[1].id_map :
          /\ Len(AppearancesOf(input[1].sub_results, id)) = 3
          /\ Len(locals[1].id_map[id].sources) = 2
          /\ locals[1].id_map[id].memory.score_type = "Rerank"
          /\ AppearancesOf(input[1].sub_results, id)[1].memory.score_type = "Vector"
          /\ locals[1].id_map[id].max_score = 90

\* position of the first appearance of an id in stage A's walk
FirstSeen(subs, id) ==
    CHOOSE k \in 1..Len(Appearances(subs)) :
        /\ Appearances(subs)[k].memory.id = id
        /\ \A j \in 1..(k - 1) : Appearances(subs)[j].memory.id # id

\* C24: stage B leaves the MergedResults in descending max_score, those of
\* equal max_score in the order in which stage A first inserted their ids.
C24_SortedTiesByInsertion ==
    AtStage({"stage_c", "returned"}) =>
        LET merged_list == locals[1].merged
        IN \A i, j \in 1..Len(merged_list) :
              i < j =>
                 /\ merged_list[i].max_score >= merged_list[j].max_score
                 /\ merged_list[i].max_score = merged_list[j].max_score =>
                       FirstSeen(input[1].sub_results, merged_list[i].memory.id)
                           < FirstSeen(input[1].sub_results, merged_list[j].memory.id)

\* a state of the step-by-step expansion after its layer-1 search
Expanding ==
    input # <<>> /\ "fault" \in DOMAIN input[1] /\ locals # <<>>

\* C26: throughout an expansion visited has as many ids as all_candidates has
\* entries, and no two entries of all_candidates have the same id.
C26_VisitedCountsCandidates ==
    Expanding =>
        LET l == locals[1]
        IN /\ Cardinality(l.visited) = Len(l.all_candidates)
           /\ l.visited = {l.all_candidates[i].id : i \in 1..Len(l.all_candidates)}
           /\ \A i, j \in 1..Len(l.all_candidates) :
                 l.all_candidates[i].id = l.all_candidates[j].id => i = j

\* a layer >= 2 of a small store had a neighbour that was already visited
C26_Witness ==
    /\ Expanding /\ pc = "absorb"
    /\ LET l == locals[1]
       IN /\ l.bi <= Len(l.all_related)
          /\ \E k \in 1..Len(l.all_related[l.bi].related) :
                /\ k < l.ri
                /\ l.all_related[l.bi].related[k] \notin Range(l.next_layer_results)
          /\ l.next_layer_results # <<>>

\* what the storage returns for the vector of a previous-layer memory
Neighbours(a, l, b) ==
    search_by_vector(a.store, a.store.pos[l.current_layer_results[b].id],
                     branch_limit(max_nodes(a.limit)) * 2,
                     generate_thresholds(a.threshold)[l.layer_index + 1])

IdsIn(results) == {results[i].id : i \in 1..Len(results)}

Overlap(a, id, other) == a.store.tags[id] \cap a.store.tags[other] # {}

\* the layer-1 search of the request
FirstLayer(a) ==
    search_by_vector(a.store, a.query_vector, branch_limit(max_nodes(a.limit)),
                     generate_thresholds(a.threshold)[1])

\* C22: every candidate a layer >= 2 has added was returned by the branch of a
\* previous-layer memory m, was among the storage's answer for m's vector and
\* shares a tag with m; the layer-1 candidates are the whole layer-1 answer.
C22_TagOverlapGate ==
    Expanding =>
        LET l == locals[1]
            a == input[1]
        IN /\ pc = "absorb" =>
                \A k \in 1..Len(l.next_layer_results) :
                   \E b \in 1..Min(l.bi, Len(l.all_related)) :
                      /\ l.next_layer_results[k] \in Range(l.all_related[b].related)
                      /\ Overlap(a, l.next_layer_results[k].id, l.current_layer_results[b].id)
           /\ (pc = "absorb" /\ l.bi = 1 /\ l.ri = 1) =>
                \A b \in 1..Len(l.all_related) :
                   IdsIn(l.all_related[b].related) \subseteq IdsIn(Neighbours(a, l, b))
           /\ (pc = "layer_loop" /\ l.layer_index = 1) => l.all_candidates = FirstLayer(a)

\* a layer >= 2 added a candidate while the gate held back a neighbour, and
\* layer 1 had taken a memory without tags
C22_Witness ==
    /\ Expanding /\ pc = "absorb"
    /\ input[1].store.n <= MaxStore
    /\ locals[1].next_layer_results # <<>>
    /\ \E i \in IdsIn(FirstLayer(input[1])) : input[1].store.tags[i] = {}
    /\ \E b \in 1..Len(locals[1].all_related) :
          \E id \in IdsIn(Neighbours(input[1], locals[1], b)) :
             ~Overlap(input[1], id, locals[1].current_layer_results[b].id)

\* C27: in a layer >= 2 the other branches of a failed branch are searched in
\* full, every candidate of the layer comes from a branch that succeeded, the
\* layer-1 candidates stay, and the expansion ends in the ranking with Ok.
C27_BranchFailureIsolated ==
    Expanding =>
        LET l == locals[1]
            a == input[1]
        IN /\ (pc = "absorb" /\ l.bi = 1 /\ l.ri = 1) =>
                /\ Len(l.all_related) = Len(l.current_layer_results)
                /\ \A b \in 1..Len(l.all_related) :
                      l.current_layer_results[b].id # a.fault.at =>
                         /\ l.all_related[b].ok
                         /\ l.all_related[b].related
                               = BranchSearch(a.store, l.current_layer_results[b],
                                              branch_limit(max_nodes(a.limit)),
                                              generate_thresholds(a.threshold)[l.layer_index + 1])
           /\ pc = "absorb" =>
                \A k \in 1..Len(l.next_layer_results) :
                   \E b \in 1..Len(l.all_related) :
                      /\ l.all_related[b].ok
                      /\ l.next_layer_results[k] \in Range(l.all_related[b].related)
           /\ pc \in {"layer_loop", "absorb", "apply_rerank", "returned"} =>
                SubSeq(l.all_candidates, 1, Len(FirstLayer(a))) = FirstLayer(a)
           /\ pc = "returned" =>
                /\ output[1].ok
                /\ output[1] = apply_rerank(l.all_candidates, a.limit,
                                            RerankAnswer(a.policy, l.all_candidates, a.limit))

\* an expansion that returned Ok after a layer in which one branch failed and
\* another added a candidate
C27_Witness ==
    /\ Expanding /\ pc = "returned"
    /\ output[1].ok
    /\ \E b \in 1..Len(locals[1].all_related) : ~locals[1].all_related[b].ok
    /\ Len(locals[1].all_candidates) > Len(FirstLayer(input[1]))

\* C28: throughout an expansion all_candidates has at most max_nodes entries,
\* layer 1 leaves at most branch_limit of them, and a layer in progress with
\* the budget reached has itself added a candidate.
C28_WithinBudget ==
    Expanding =>
        LET l == locals[1]
            cap == max_nodes(input[1].limit)
        IN /\ Len(l.all_candidates) <= cap
           /\ l.layer_index <= 1 /\ pc \in {"first_loop", "layer_loop"} =>
                 Len(l.all_candidates) <= branch_limit(cap)
           /\ (pc = "absorb" /\ Len(l.all_candidates) >= cap) => l.next_layer_results # <<>>

\* the budget reached while a branch still had neighbours to offer
C28_Witness ==
    /\ Expanding /\ pc = "absorb"
    /\ Len(locals[1].all_candidates) = max_nodes(input[1].limit)
    /\ locals[1].bi <= Len(locals[1].all_related)
    /\ locals[1].ri > Len(locals[1].all_related[locals[1].bi].related)
    /\ \E r \in Range(locals[1].all_related[locals[1].bi].related) :
          r.id \notin locals[1].visited

\* C29: the branch of a previous-layer memory without tags is empty, whatever
\* the storage returns for its vector.
C29_NoTagsDeadEnd ==
    (Expanding /\ pc = "absorb") =>
        \A b \in 1..Len(locals[1].all_related) :
           input[1].store.tags[locals[1].current_layer_results[b].id] = {} =>
              /\ locals[1].all_related[b].related = <<>>
              /\ \A k \in 1..Len(locals[1].next_layer_results) :
                    \E other \in 1..Len(locals[1].all_related) :
                       /\ other # b
                       /\ locals[1].next_layer_results[k]
                             \in Range(locals[1].all_related[other].related)

\* a previous-layer memory without tags whose vector has neighbours
C29_Witness ==
    /\ Expanding /\ pc = "absorb"
    /\ input[1].store.n <= MaxStore
    /\ input[1].fault.kind = "none"
    /\ \E b \in 1..Len(locals[1].all_related) :
          /\ input[1].store.tags[locals[1].current_layer_results[b].id] = {}
          /\ Len(Neighbours(input[1], locals[1], b)) > 1

\* the rows of the table that carry the id of the update
RowsOfId == SelectSeq(locals[1].table, LAMBDA row : row.id = input[1].id)

\* C30: once the old memory was found, update leaves exactly one row with the
\* id: the old memory when it returns an error, and a row with the new
\* content, vector and tags and the old created_at when it succeeds.
C30_UpdateAllOrNothing ==
    (pc = "returned" /\ input # <<>> /\ "dimension_ok" \in DOMAIN input[1]
        /\ locals[1].old_memory # <<>>) =>
        /\ Len(RowsOfId) = 1
        /\ ~output[1].ok => RowsOfId[1] = locals[1].old_memory[1]
        /\ output[1].ok =>
              RowsOfId[1] = [id |-> input[1].id, content |-> input[1].content,
                             vector |-> input[1].vector, tags |-> input[1].tags,
                             created_at |-> locals[1].old_memory[1].created_at]

====
